---------------------------- MODULE Spec2Model ----------------------------
(***************************************************************************)
(* Two-phase commit over two replicated sensor-data stores.                *)
(*                                                                         *)
(* Participant: DatabaseService (internal/database, server side): the log  *)
(* `data`, the prepared set `preparedTxns`, the cleanup goroutine.         *)
(* Coordinator: TwoPhaseCommitClient (internal/database, client side):     *)
(* AddDataPointWithTwoPhaseCommit, commitAll, abortAll.                    *)
(*                                                                         *)
(* Time is counted in seconds.  Handlers run in negligible time compared   *)
(* with the 5 s ticker, so the clock only advances from one timer instant  *)
(* to the next (AdvanceTime).                                              *)
(*                                                                         *)
(* History fields.  A log entry is [sd, seq, txn]: sd is the stored        *)
(* types.SensorData, the only part the program has; seq is the number of   *)
(* the addDataPointInternal application that stored it and txn the         *)
(* transaction that committed it ("" for CreateSensorData).  No handler    *)
(* reads seq or txn.                                                       *)
(*                                                                         *)
(* Specifications.  SpecDB: the RPCs of one service.  SpecExpiry: the 2PC  *)
(* RPCs of one service with its cleanup goroutine and the clock (SpecStop  *)
(* / FairSpecStop: with a cleanup goroutine scheduled in time).  Spec:     *)
(* two concurrent AddDataPointWithTwoPhaseCommit activations over the two  *)
(* services, with RPC failures.  SpecCrash / FairSpecCrash: sequential     *)
(* activations, one of which may die in its prepare loop, with the clock   *)
(* and the cleanup goroutines.  SpecTimeout / FairSpecTimeout: one         *)
(* activation whose RPCs may fail, with the clock and the cleanup          *)
(* goroutines.  SpecDeadline: one activation of a live coordinator, each   *)
(* RPC ending within its deadline.  SpecRead: the reads of the coordinator *)
(* over two services written directly.  SpecLocks / FairSpecLocks: the     *)
(* handlers of one service step by step over mu and txnMutex.  SpecRace:   *)
(* the transactional handlers statement by statement beside the cleanup    *)
(* goroutine.  SpecFactory: TwoPhaseCommitClientFactory over lists of      *)
(* addresses.  SpecShutdown: the main of a database server from the        *)
(* signal to its exit.                                                     *)
(***************************************************************************)
EXTENDS Integers, Sequences, FiniteSets, TLC

(* ------------------------------ bounds -------------------------------- *)
MaxLimit == 2        \* largest -data-limit tried (maxDataPoints in 0..MaxLimit)
MaxAppends == 2      \* appends per participant in the participant-level runs
MaxTime == 35        \* the clock stops advancing here
MaxAddrs == 3         \* longest list of addresses given to the factory
MaxLate == 1         \* abandoned requests that may still be under way

(* ------------------------- program constants -------------------------- *)
TxnTimeout == 30         \* txnTimeout: 30 * time.Second
CleanupInterval == 5     \* time.NewTicker(5 * time.Second)
RpcDeadline == 5         \* context.WithTimeout(..., 5*time.Second) of every RPC

DBs == {0, 1}            \* the two database servers (db-addr1, db-addr2)

(* ------------------------------ values -------------------------------- *)
SensorIds == {"s1", "s2"}
NewPayloads == {<<10, "C">>}               \* (Value, Unit) of a new measurement
Payloads == NewPayloads \cup {<<20, "F">>} \* (Value, Unit) an update may set
NilTimestamp == -1                         \* req.Timestamp == nil (no instant)
NilSensorData == [IsNil |-> TRUE]          \* req.SensorData == nil
TxnIds == {"txn_1", "txn_2"}

VARIABLES
    data,            \* [DBs -> Seq(entry)]          s.data
    maxDataPoints,   \* [DBs -> Nat]                 s.maxDataPoints
    preparedTxns,    \* [DBs -> map txid -> TransactionState]
    appended,        \* [DBs -> Nat]  history: addDataPointInternal applications
    now,             \* time.Now(), in seconds
    ticks,           \* [DBs -> 0..1] ticks buffered in cleanupTicker.C
    stopCleanup,     \* [DBs -> BOOLEAN] the stopCleanup channel is closed
    grpcServer,      \* [DBs -> serving, draining, stopped, exited]: main of the server
    sweeper,         \* [DBs -> {"running","exited"}] the cleanup goroutine
    expired,         \* [DBs -> SUBSET txids] history: removed by the cleanup
    reply,           \* the last answer a direct RPC client received
    call,            \* [Calls -> activation of AddDataPointWithTwoPhaseCommit]
    late,            \* requests whose caller gave up, still to reach their server
    overlapped,      \* history: some call started while another was running
    thread,          \* [Threads -> a goroutine serving one request at TargetDB]
    mu,              \* s.mu of TargetDB: [writer, readers]
    txnMutex         \* s.txnMutex of TargetDB: its holder

svcVars == <<data, maxDataPoints, preparedTxns, appended>>
timeVars == <<now, ticks, stopCleanup, grpcServer, sweeper, expired>>
coordVars == <<call, late, overlapped>>

lockVars == <<thread, mu, txnMutex>>

vars == <<svcVars, timeVars, reply, coordVars, lockVars>>

(* ------------------------- pure helpers ------------------------------- *)
Range(f) == {f[x] : x \in DOMAIN f}

Restrict(f, S) == [x \in S |-> f[x]]

EmptyMap == [x \in {} |-> x]      \* make(map[string]*TransactionState)

RECURSIVE SelectIdx(_, _)
\* the indices of seq, in order, that satisfy Keep (a set of indices)
SelectIdx(seq, Keep) ==
    IF seq = <<>> THEN <<>>
    ELSE LET n == Len(seq)
             front == SelectIdx(SubSeq(seq, 1, n - 1), Keep)
         IN IF n \in Keep THEN Append(front, seq[n]) ELSE front

(* pb.SensorDataRequest -> types.SensorData; a nil timestamp becomes now *)
ProtoToSensorData(req, t) ==
    [SensorID  |-> req.SensorId,
     Timestamp |-> IF req.Timestamp # NilTimestamp THEN req.Timestamp ELSE t,
     Value     |-> req.Value,
     Unit      |-> req.Unit]

(* variant: the unit is not copied into the request *)
SensorDataToProto_NoUnit(sd) ==
    [SensorId  |-> sd.SensorID,
     Timestamp |-> sd.Timestamp,
     Value     |-> sd.Value,
     Unit      |-> ""]

(* types.SensorData -> pb.SensorDataRequest *)
SensorDataToProto(sd) ==
    [SensorId  |-> sd.SensorID,
     Timestamp |-> sd.Timestamp,
     Value     |-> sd.Value,
     Unit      |-> sd.Unit]

OperationResponse(ok, msg) == [Success |-> ok, Message |-> msg]

PrepareResponse(ok, msg, txid) ==
    [Success |-> ok, Message |-> msg, TransactionId |-> txid]

(* The state of one DatabaseService as a record.                          *)
Svc(p) == [data          |-> data[p],
           maxDataPoints |-> maxDataPoints[p],
           preparedTxns  |-> preparedTxns[p],
           appended      |-> appended[p]]

(* DatabaseServiceFactory(limit) *)
DatabaseServiceFactory(limit) ==
    [data          |-> <<>>,
     maxDataPoints |-> limit,
     preparedTxns  |-> EmptyMap,
     appended      |-> 0]

(* variant: the log is never cut *)
FifoAppend_Unbounded(d, limit, x) == Append(d, x)

(* variant: a full log keeps its oldest entries and drops the new one *)
FifoAppend_DropsNewest(d, limit, x) ==
    LET a == Append(d, x)
    IN IF Len(a) > limit THEN SubSeq(a, 1, limit) ELSE a

(* variant: the new entry is put in front and the log cut at its end *)
FifoAppend_Front(d, limit, x) ==
    LET a == <<x>> \o d
    IN IF Len(a) > limit THEN SubSeq(a, 1, limit) ELSE a

(* s.data = append(s.data, x); if len > max then s.data = s.data[len-max:] *)
FifoAppend(d, limit, x) ==
    LET a == Append(d, x)
    IN IF Len(a) > limit THEN SubSeq(a, Len(a) - limit + 1, Len(a)) ELSE a

(* variant: the log keeps the records of sensor s1 in front of the others, *)
(* an order that is the same at every participant                          *)
AddDataPointInternal_SensorOrder(s, sensorData, txn) ==
    LET e == [sd |-> sensorData, seq |-> s.appended + 1, txn |-> txn]
        a == IF sensorData.SensorID = "s1" THEN <<e>> \o s.data ELSE Append(s.data, e)
    IN [s EXCEPT !.data = IF Len(a) > s.maxDataPoints
                          THEN SubSeq(a, Len(a) - s.maxDataPoints + 1, Len(a))
                          ELSE a,
                 !.appended = s.appended + 1]

(* addDataPointInternal, under s.mu *)
AddDataPointInternal(s, sensorData, txn) ==
    [s EXCEPT !.data = FifoAppend(s.data, s.maxDataPoints,
                                  [sd |-> sensorData, seq |-> s.appended + 1, txn |-> txn]),
              !.appended = s.appended + 1]

(* variant: the age is computed with its operands swapped *)
CleanupExpiredTransactions_Swapped(s, t) ==
    LET keep == {id \in DOMAIN s.preparedTxns :
                    ~(s.preparedTxns[id].PreparedAt - t > TxnTimeout)}
    IN [s EXCEPT !.preparedTxns = Restrict(s.preparedTxns, keep)]

(* variant: the sweep removes nothing *)
CleanupExpiredTransactions_Never(s, t) == s

(* variant: the sweep ends after the first entry it removes *)
CleanupExpiredTransactions_OnePerSweep(s, t) ==
    LET old == {id \in DOMAIN s.preparedTxns :
                   t - s.preparedTxns[id].PreparedAt > TxnTimeout}
        keep == IF old = {} THEN DOMAIN s.preparedTxns
                ELSE DOMAIN s.preparedTxns \ {CHOOSE id \in old : TRUE}
    IN [s EXCEPT !.preparedTxns = Restrict(s.preparedTxns, keep)]

(* cleanupExpiredTransactions, under s.txnMutex *)
CleanupExpiredTransactions(s, t) ==
    LET keep == {id \in DOMAIN s.preparedTxns :
                    ~(t - s.preparedTxns[id].PreparedAt > TxnTimeout)}
    IN [s EXCEPT !.preparedTxns = Restrict(s.preparedTxns, keep)]

(* ---------------- the RPC handlers: [s |-> state after, resp |-> answer] *)
CreateSensorData(s, req, t) ==
    IF req.SensorId = ""
    THEN [s |-> s, resp |-> OperationResponse(FALSE, "Missing sensor ID")]
    ELSE [s |-> AddDataPointInternal(s, ProtoToSensorData(req, t), ""),
          resp |-> OperationResponse(TRUE, "Data stored successfully")]

(* the entry PrepareTransaction stores *)
WithPrepared(s, req, t) ==
    [s EXCEPT !.preparedTxns =
        [id \in DOMAIN s.preparedTxns \cup {req.TransactionId} |->
            IF id = req.TransactionId
            THEN [TransactionID |-> req.TransactionId,
                  SensorData    |-> ProtoToSensorData(req.SensorData, t),
                  PreparedAt    |-> t]
            ELSE s.preparedTxns[id]]]

(* variant: no check whether the transaction is already prepared *)
PrepareTransaction_Overwrites(s, req, t) ==
    IF req.TransactionId = ""
    THEN [s |-> s, resp |-> PrepareResponse(FALSE, "Missing transaction ID", "")]
    ELSE IF req.SensorData = NilSensorData
    THEN [s |-> s, resp |-> PrepareResponse(FALSE, "Missing sensor data", "")]
    ELSE IF req.SensorData.SensorId = ""
    THEN [s |-> s, resp |-> PrepareResponse(FALSE, "Missing sensor ID in sensor data", "")]
    ELSE [s |-> WithPrepared(s, req, t),
          resp |-> PrepareResponse(TRUE, "Transaction prepared successfully", req.TransactionId)]

(* variant: the sensor id of the record is not looked at *)
PrepareTransaction_NoSensorCheck(s, req, t) ==
    IF req.TransactionId = ""
    THEN [s |-> s, resp |-> PrepareResponse(FALSE, "Missing transaction ID", "")]
    ELSE IF req.SensorData = NilSensorData
    THEN [s |-> s, resp |-> PrepareResponse(FALSE, "Missing sensor data", "")]
    ELSE IF req.TransactionId \in DOMAIN s.preparedTxns
    THEN [s |-> s,
          resp |-> PrepareResponse(FALSE, "Transaction already prepared", req.TransactionId)]
    ELSE [s |-> WithPrepared(s, req, t),
          resp |-> PrepareResponse(TRUE, "Transaction prepared successfully", req.TransactionId)]

(* variant: a Prepare that votes YES stores the record at once *)
PrepareTransaction_Stores(s, req, t) ==
    IF req.TransactionId = ""
    THEN [s |-> s, resp |-> PrepareResponse(FALSE, "Missing transaction ID", "")]
    ELSE IF req.SensorData = NilSensorData
    THEN [s |-> s, resp |-> PrepareResponse(FALSE, "Missing sensor data", "")]
    ELSE IF req.SensorData.SensorId = ""
    THEN [s |-> s, resp |-> PrepareResponse(FALSE, "Missing sensor ID in sensor data", "")]
    ELSE IF req.TransactionId \in DOMAIN s.preparedTxns
    THEN [s |-> s,
          resp |-> PrepareResponse(FALSE, "Transaction already prepared", req.TransactionId)]
    ELSE [s |-> AddDataPointInternal(WithPrepared(s, req, t),
                                     ProtoToSensorData(req.SensorData, t),
                                     req.TransactionId),
          resp |-> PrepareResponse(TRUE, "Transaction prepared successfully", req.TransactionId)]

PrepareTransaction(s, req, t) ==
    IF req.TransactionId = ""
    THEN [s |-> s, resp |-> PrepareResponse(FALSE, "Missing transaction ID", "")]
    ELSE IF req.SensorData = NilSensorData
    THEN [s |-> s, resp |-> PrepareResponse(FALSE, "Missing sensor data", "")]
    ELSE IF req.SensorData.SensorId = ""
    THEN [s |-> s, resp |-> PrepareResponse(FALSE, "Missing sensor ID in sensor data", "")]
    ELSE IF req.TransactionId \in DOMAIN s.preparedTxns
    THEN [s |-> s,
          resp |-> PrepareResponse(FALSE, "Transaction already prepared", req.TransactionId)]
    ELSE [s |-> WithPrepared(s, req, t),
          resp |-> PrepareResponse(TRUE, "Transaction prepared successfully", req.TransactionId)]

(* fmt.Sprintf("Transaction %s not found or not prepared", id) *)
NotFoundMessage(id) == "Transaction " \o id \o " not found or not prepared"

(* variant: a commit stores the record and keeps the prepared entry *)
CommitTransaction_KeepsEntry(s, req) ==
    IF req.TransactionId = ""
    THEN [s |-> s, resp |-> OperationResponse(FALSE, "Missing transaction ID")]
    ELSE IF req.TransactionId \notin DOMAIN s.preparedTxns
    THEN [s |-> s, resp |-> OperationResponse(FALSE, NotFoundMessage(req.TransactionId))]
    ELSE [s |-> AddDataPointInternal(s, s.preparedTxns[req.TransactionId].SensorData,
                                     req.TransactionId),
          resp |-> OperationResponse(TRUE, "Transaction committed successfully")]

CommitTransaction(s, req) ==
    IF req.TransactionId = ""
    THEN [s |-> s, resp |-> OperationResponse(FALSE, "Missing transaction ID")]
    ELSE IF req.TransactionId \notin DOMAIN s.preparedTxns
    THEN [s |-> s, resp |-> OperationResponse(FALSE, NotFoundMessage(req.TransactionId))]
    ELSE LET txnState == s.preparedTxns[req.TransactionId]
             stored == AddDataPointInternal(s, txnState.SensorData, req.TransactionId)
         IN [s |-> [stored EXCEPT !.preparedTxns =
                       Restrict(s.preparedTxns, DOMAIN s.preparedTxns \ {req.TransactionId})],
             resp |-> OperationResponse(TRUE, "Transaction committed successfully")]

(* variant: the abort handler stores the prepared record as a commit does *)
AbortTransaction_Stores(s, req) ==
    [s |-> CommitTransaction(s, req).s,
     resp |-> IF CommitTransaction(s, req).resp.Success
              THEN OperationResponse(TRUE, "Transaction aborted successfully")
              ELSE CommitTransaction(s, req).resp]

(* variant: an abort discards every prepared entry, not only its own *)
AbortTransaction_All(s, req) ==
    IF req.TransactionId = ""
    THEN [s |-> s, resp |-> OperationResponse(FALSE, "Missing transaction ID")]
    ELSE IF req.TransactionId \notin DOMAIN s.preparedTxns
    THEN [s |-> s, resp |-> OperationResponse(FALSE, NotFoundMessage(req.TransactionId))]
    ELSE [s |-> [s EXCEPT !.preparedTxns = EmptyMap],
          resp |-> OperationResponse(TRUE, "Transaction aborted successfully")]

(* variant: aborting an unknown transaction is reported as a success *)
AbortTransaction_Idempotent(s, req) ==
    IF req.TransactionId = ""
    THEN [s |-> s, resp |-> OperationResponse(FALSE, "Missing transaction ID")]
    ELSE [s |-> [s EXCEPT !.preparedTxns =
                    Restrict(s.preparedTxns, DOMAIN s.preparedTxns \ {req.TransactionId})],
          resp |-> OperationResponse(TRUE, "Transaction aborted successfully")]

AbortTransaction(s, req) ==
    IF req.TransactionId = ""
    THEN [s |-> s, resp |-> OperationResponse(FALSE, "Missing transaction ID")]
    ELSE IF req.TransactionId \notin DOMAIN s.preparedTxns
    THEN [s |-> s, resp |-> OperationResponse(FALSE, NotFoundMessage(req.TransactionId))]
    ELSE [s |-> [s EXCEPT !.preparedTxns =
                    Restrict(s.preparedTxns, DOMAIN s.preparedTxns \ {req.TransactionId})],
          resp |-> OperationResponse(TRUE, "Transaction aborted successfully")]

GetAllSensorData(s) ==
    [Data |-> [i \in 1..Len(s.data) |-> SensorDataToProto(s.data[i].sd)]]

GetSensorDataBySensorId(s, req) ==
    IF req.SensorId = ""
    THEN [Data |-> <<>>]
    ELSE LET hit == SelectIdx(s.data, {i \in 1..Len(s.data) : s.data[i].sd.SensorID = req.SensorId})
         IN [Data |-> [i \in 1..Len(hit) |-> SensorDataToProto(hit[i].sd)]]

(* variant: every matching entry is updated, not the first one only *)
UpdateSensorData_AllMatches(s, req) ==
    IF req.SensorId = "" \/ req.Timestamp = NilTimestamp
    THEN [s |-> s, resp |-> OperationResponse(FALSE, "Missing sensor ID or timestamp")]
    ELSE LET match == {i \in 1..Len(s.data) :
                          /\ s.data[i].sd.SensorID = req.SensorId
                          /\ s.data[i].sd.Timestamp = req.Timestamp}
         IN IF match = {}
            THEN [s |-> s, resp |-> OperationResponse(FALSE, "Data not found")]
            ELSE [s |-> [s EXCEPT !.data =
                            [i \in 1..Len(s.data) |->
                                IF i \in match
                                THEN [s.data[i] EXCEPT !.sd.Value = req.Value,
                                                       !.sd.Unit = req.Unit]
                                ELSE s.data[i]]],
                  resp |-> OperationResponse(TRUE, "Data updated successfully")]

UpdateSensorData(s, req) ==
    IF req.SensorId = "" \/ req.Timestamp = NilTimestamp
    THEN [s |-> s, resp |-> OperationResponse(FALSE, "Missing sensor ID or timestamp")]
    ELSE LET match == {i \in 1..Len(s.data) :
                          /\ s.data[i].sd.SensorID = req.SensorId
                          /\ s.data[i].sd.Timestamp = req.Timestamp}
         IN IF match = {}
            THEN [s |-> s, resp |-> OperationResponse(FALSE, "Data not found")]
            ELSE LET i == CHOOSE k \in match : \A j \in match : k <= j
                 IN [s |-> [s EXCEPT !.data[i].sd.Value = req.Value,
                                     !.data[i].sd.Unit = req.Unit],
                     resp |-> OperationResponse(TRUE, "Data updated successfully")]

(* variant: the loop ends at the first entry of the sensor it removes *)
DeleteSensorData_FirstMatch(s, req) ==
    IF req.SensorId = ""
    THEN [s |-> s, resp |-> OperationResponse(FALSE, "Missing sensor ID")]
    ELSE LET hits == {i \in 1..Len(s.data) : s.data[i].sd.SensorID = req.SensorId}
             first == IF hits = {} THEN {}
                      ELSE {CHOOSE i \in hits : \A k \in hits : i <= k}
         IN [s |-> [s EXCEPT !.data = SelectIdx(s.data, (1..Len(s.data)) \ first)],
             resp |-> OperationResponse(TRUE, "Deleted data for sensor")]

DeleteSensorData(s, req) ==
    IF req.SensorId = ""
    THEN [s |-> s, resp |-> OperationResponse(FALSE, "Missing sensor ID")]
    ELSE [s |-> [s EXCEPT !.data =
                    SelectIdx(s.data, {i \in 1..Len(s.data) : s.data[i].sd.SensorID # req.SensorId})],
          resp |-> OperationResponse(TRUE, "Deleted data for sensor")]

(* --------------------------- the coordinator -------------------------- *)
Calls == {1, 2}       \* the activations of AddDataPointWithTwoPhaseCommit

FirstDB == CHOOSE p \in DBs : \A q \in DBs : p <= q     \* tpc.clients[0]
LastDB == CHOOSE p \in DBs : \A q \in DBs : q <= p      \* tpc.clients[len-1]

(* generateTransactionID: 16 random bytes, hex encoded; two activations    *)
(* never draw the same identifier.                                         *)
GenerateTransactionID(c) == <<"txn_1", "txn_2">>[c]

NilResponse == [IsNil |-> TRUE]

(* the error value a call returns: nil, or fmt.Errorf of a format with the  *)
(* count and the last diagnostic it was given                              *)
NilError == [format |-> "", count |-> 0, lastError |-> ""]

Errorf(format, count, lastError) ==
    [format |-> format, count |-> count, lastError |-> lastError]

CommitFailedFormat ==
    "transaction %s: only %d of %d databases committed successfully, last error: %v"
AbortFailedFormat == "transaction %s aborted, but some abort operations failed: %v"
PrepareFailedFormat == "transaction %s was aborted due to prepare phase failures"

(* the err of an RPC that ended without an answer: transport, deadline *)
RpcError == "rpc error"

(* an activation before it is called *)
IdleCall ==
    [pc |-> "idle",                   \* idle, prepare, commit, abort, done
     i |-> FirstDB,                   \* the loop index over tpc.clients
     rpc |-> "none",                  \* none, sent, replied: the RPC in flight
     elapsed |-> FALSE,               \* ctx of the RPC in flight: a tick of its
                                      \* 5 s has passed (SpecDeadline only)
     resp |-> NilResponse,            \* the answer of the server, once replied
     sensorData |-> NilSensorData,
     prepareResponses |-> [p \in DBs |-> NilResponse],
     prepareErrors |-> [p \in DBs |-> FALSE],
     count |-> 0,                     \* successCount / abortCount
     lastError |-> "",
     result |-> NilError,
     seqAt |-> [p \in DBs |-> 0],     \* history: seq of its record's entry at p
     prepSent |-> {},                 \* history: the databases sent a Prepare
     decSent |-> {},                  \* history: <<decision, database>> sent
     decErr |-> [p \in DBs |-> ""]]   \* history: the error of the decision at p

(* variant: one successful Prepare is enough to commit *)
AllPrepared_Any(prepareResponses, prepareErrors) ==
    \E p \in DBs :
        ~(\/ prepareErrors[p]
          \/ prepareResponses[p] = NilResponse
          \/ ~prepareResponses[p].Success)

(* variant: a Prepare that ended with an error does not count as a NO *)
AllPrepared_ErrorsIgnored(prepareResponses, prepareErrors) ==
    \A p \in DBs :
        \/ prepareErrors[p]
        \/ prepareResponses[p] # NilResponse /\ prepareResponses[p].Success

(* the decision of AddDataPointWithTwoPhaseCommit after the prepare loop *)
AllPrepared(prepareResponses, prepareErrors) ==
    \A p \in DBs :
        ~(\/ prepareErrors[p]
          \/ prepareResponses[p] = NilResponse
          \/ ~prepareResponses[p].Success)

(* variant: commitAll reports success as soon as one database committed *)
CommitAllResult_AnySuccess(successCount, lastError) ==
    IF successCount >= 1
    THEN NilError
    ELSE Errorf(CommitFailedFormat, successCount, lastError)

(* variant: commitAll reports the failure without the last error *)
CommitAllResult_NoDiagnostic(successCount, lastError) ==
    IF successCount = Cardinality(DBs)
    THEN NilError
    ELSE Errorf(CommitFailedFormat, successCount, "")

(* what commitAll returns *)
CommitAllResult(successCount, lastError) ==
    IF successCount = Cardinality(DBs)
    THEN NilError
    ELSE Errorf(CommitFailedFormat, successCount, lastError)

(* what abortAll returns *)
AbortAllResult(abortCount, lastError) ==
    IF lastError # ""
    THEN Errorf(AbortFailedFormat, 0, lastError)
    ELSE Errorf(PrepareFailedFormat, 0, "")

(* -------------------- TwoPhaseCommitClientFactory ---------------------- *)
(* A connection is named by the position (from 1) of its address in the    *)
(* list.  ClientFactory(addr) fails for the addresses in `bad`.  The state  *)
(* of a construction: the clients made so far, and (history) the            *)
(* connections opened and those closed.                                     *)
Addresses == {"localhost:50051", "localhost:50052", "localhost:99999"}

AddressLists == UNION {[1..n -> Addresses] : n \in 0..MaxAddrs}

Construction(clients, err, opened, closed) ==
    [clients |-> clients, err |-> err, opened |-> opened, closed |-> closed]

(* variant: for j := range i-1, the connection made last stays open *)
CloseFirst_AllButLast(clients, i) == {clients[j] : j \in 1..(i - 2)}

(* for j := range i { clients[j].Close() }: the clients before position i *)
CloseFirst(clients, i) == {clients[j] : j \in 1..(i - 1)}

RECURSIVE ConnectFrom(_, _, _, _)
(* the loop of the factory from position i on *)
ConnectFrom(serverAddresses, bad, i, c) ==
    IF i > Len(serverAddresses)
    THEN c
    ELSE IF serverAddresses[i] \in bad
         THEN Construction(<<>>, "failed to connect to database", c.opened,
                           c.closed \cup CloseFirst(c.clients, i))
         ELSE ConnectFrom(serverAddresses, bad, i + 1,
                          Construction(Append(c.clients, i), "",
                                       c.opened \cup {i}, c.closed))

TwoPhaseCommitClientFactory(serverAddresses, bad) ==
    IF Len(serverAddresses) < 2
    THEN Construction(<<>>, "2PC requires at least 2 database addresses", {}, {})
    ELSE ConnectFrom(serverAddresses, bad, 1, Construction(<<>>, "", {}, {}))

(* The state of a Close: the connections whose Close was called, in the    *)
(* order of the calls, and lastError.  The Close of the connections in     *)
(* `failing` returns an error, which names the connection.                 *)
Closing(called, lastError) == [called |-> called, lastError |-> lastError]

CloseError(client) == [conn |-> client]

RECURSIVE CloseFrom_StopsAtError(_, _, _, _)
(* variant: the loop returns the first error *)
CloseFrom_StopsAtError(clients, failing, i, c) ==
    IF i > Len(clients)
    THEN c
    ELSE IF clients[i] \in failing
         THEN Closing(Append(c.called, clients[i]), CloseError(clients[i]))
         ELSE CloseFrom_StopsAtError(clients, failing, i + 1,
                                     Closing(Append(c.called, clients[i]), c.lastError))

RECURSIVE CloseFrom(_, _, _, _)
(* the loop of TwoPhaseCommitClient.Close from position i on *)
CloseFrom(clients, failing, i, c) ==
    IF i > Len(clients)
    THEN c
    ELSE CloseFrom(clients, failing, i + 1,
                   Closing(Append(c.called, clients[i]),
                           IF clients[i] \in failing THEN CloseError(clients[i])
                           ELSE c.lastError))

(* ---------------------- the reads of the coordinator ------------------- *)
(* pb.SensorDataRequest -> types.SensorData in the client: Timestamp.AsTime *)
(* of a nil timestamp is the Unix epoch                                     *)
AsSensorData(d) ==
    [SensorID  |-> d.SensorId,
     Timestamp |-> IF d.Timestamp # NilTimestamp THEN d.Timestamp ELSE 0,
     Value     |-> d.Value,
     Unit      |-> d.Unit]

(* what a read returns: the list and the error, and (history) the set of   *)
(* databases the read sent a request to                                    *)
ReadResult(list, err, contacted) ==
    [data |-> list, err |-> err, contacted |-> contacted]

(* Client.GetAllDataPoints of the client of database p; `reachable` is the *)
(* set of databases whose RPCs end without a transport error               *)
ClientGetAllDataPoints(svc, p, reachable) ==
    IF p \notin reachable
    THEN ReadResult(<<>>, "error getting all data points", {p})
    ELSE LET resp == GetAllSensorData(svc[p])
         IN ReadResult([i \in 1..Len(resp.Data) |-> AsSensorData(resp.Data[i])], "", {p})

(* Client.GetDataPointBySensorId *)
ClientGetDataPointBySensorId(svc, p, sensorID, reachable) ==
    IF p \notin reachable
    THEN ReadResult(<<>>, "error getting data points for sensor", {p})
    ELSE LET resp == GetSensorDataBySensorId(svc[p], [SensorId |-> sensorID])
         IN ReadResult([i \in 1..Len(resp.Data) |-> AsSensorData(resp.Data[i])], "", {p})

(* TwoPhaseCommitClient.GetAllDataPoints: tpc.clients[0] *)
GetAllDataPoints(svc, reachable) == ClientGetAllDataPoints(svc, FirstDB, reachable)

(* variant: the read is served by the last client *)
GetDataPointBySensorId_LastClient(svc, sensorID, reachable) ==
    ClientGetDataPointBySensorId(svc, LastDB, sensorID, reachable)

(* variant: the read falls back to the next client when the first fails *)
GetDataPointBySensorId_Fallback(svc, sensorID, reachable) ==
    LET first == ClientGetDataPointBySensorId(svc, FirstDB, sensorID, reachable)
        second == ClientGetDataPointBySensorId(svc, LastDB, sensorID, reachable)
    IN IF first.err = "" THEN first
       ELSE [second EXCEPT !.contacted = @ \cup first.contacted]

(* TwoPhaseCommitClient.GetDataPointBySensorId: tpc.clients[0] *)
GetDataPointBySensorId(svc, sensorID, reachable) ==
    ClientGetDataPointBySensorId(svc, FirstDB, sensorID, reachable)

(* ------------------------ the inputs of a client ---------------------- *)
SensorDataRequests(t, payloads) ==
    {[SensorId |-> id, Timestamp |-> ts, Value |-> pl[1], Unit |-> pl[2]] :
        id \in SensorIds \cup {""}, ts \in {NilTimestamp, t}, pl \in payloads}

TransactionRequests(t) ==
    {[TransactionId |-> id, SensorData |-> sd] :
        id \in TxnIds \cup {""},
        sd \in SensorDataRequests(t, NewPayloads) \cup {NilSensorData}}

TransactionIdRequests == {[TransactionId |-> id] : id \in TxnIds \cup {""}}

SensorIdRequests == {[SensorId |-> id] : id \in SensorIds \cup {""}}

NoReply == [op |-> "none"]

(* ------------------- goroutines and the two mutexes -------------------- *)
Threads == {"g1", "g2"}            \* goroutines of the gRPC server

NoHolder == "none"

NoEntry == -1    \* no prepared entry (a PreparedAt is never negative)

(* txnState is the local of CommitTransaction and AbortTransaction.  resp,  *)
(* at and seq0 are history: the answer of the handler, the PreparedAt of    *)
(* the entry of its txid when the request arrived, and the number of        *)
(* appends made before it arrived                                           *)
IdleThread == [pc |-> "idle", op |-> "", req |-> NilSensorData, k |-> 0,
               txnState |-> NoEntry,
               resp |-> NilResponse, at |-> NoEntry, seq0 |-> 0]

(* ------------------------------ Init ---------------------------------- *)
InitServices(limits) ==
    /\ data = [p \in DBs |-> DatabaseServiceFactory(limits[p]).data]
    /\ maxDataPoints = [p \in DBs |-> DatabaseServiceFactory(limits[p]).maxDataPoints]
    /\ preparedTxns = [p \in DBs |-> DatabaseServiceFactory(limits[p]).preparedTxns]
    /\ appended = [p \in DBs |-> 0]
    /\ now = 0
    /\ ticks = [p \in DBs |-> 0]
    /\ stopCleanup = [p \in DBs |-> FALSE]
    /\ grpcServer = [p \in DBs |-> "serving"]
    /\ sweeper = [p \in DBs |-> "running"]      \* startTransactionCleanup
    /\ expired = [p \in DBs |-> {}]
    /\ reply = NoReply
    /\ call = [c \in Calls |-> IdleCall]
    /\ late = {}
    /\ overlapped = FALSE
    /\ thread = [t \in Threads |-> IdleThread]
    /\ mu = [writer |-> NoHolder, readers |-> {}]
    /\ txnMutex = NoHolder

(* the state of service p becomes s *)
SetSvc(p, s) ==
    /\ data' = [data EXCEPT ![p] = s.data]
    /\ preparedTxns' = [preparedTxns EXCEPT ![p] = s.preparedTxns]
    /\ appended' = [appended EXCEPT ![p] = s.appended]
    /\ UNCHANGED maxDataPoints

(* ---------- direct RPCs: a client calls a handler and gets its answer -- *)
RpcCreate(p, reqs) ==
    \E req \in reqs :
        LET r == CreateSensorData(Svc(p), req, now)
        IN /\ appended[p] < MaxAppends
           /\ SetSvc(p, r.s)
           /\ reply' = [op |-> "Create", db |-> p, key |-> req.SensorId, resp |-> r.resp]
           /\ UNCHANGED <<lockVars, timeVars, coordVars>>

RpcPrepareReq(p, req) ==
    LET r == PrepareTransaction(Svc(p), req, now)
    IN /\ SetSvc(p, r.s)
       /\ reply' = [op |-> "Prepare", db |-> p, key |-> req.TransactionId, resp |-> r.resp]
       /\ UNCHANGED <<lockVars, timeVars, coordVars>>

RpcPrepare(p, reqs) == \E req \in reqs : RpcPrepareReq(p, req)

RpcCommit(p, reqs) ==
    \E req \in reqs :
        LET r == CommitTransaction(Svc(p), req)
        IN /\ appended[p] < MaxAppends
           /\ SetSvc(p, r.s)
           /\ reply' = [op |-> "Commit", db |-> p, key |-> req.TransactionId, resp |-> r.resp]
           /\ UNCHANGED <<lockVars, timeVars, coordVars>>

RpcAbort(p, reqs) ==
    \E req \in reqs :
        LET r == AbortTransaction(Svc(p), req)
        IN /\ SetSvc(p, r.s)
           /\ reply' = [op |-> "Abort", db |-> p, key |-> req.TransactionId, resp |-> r.resp]
           /\ UNCHANGED <<lockVars, timeVars, coordVars>>

RpcGetAll(p) ==
    /\ reply' = [op |-> "GetAll", db |-> p, key |-> "",
                 resp |-> GetAllSensorData(Svc(p))]
    /\ UNCHANGED <<lockVars, svcVars, timeVars, coordVars>>

RpcGetBySensorId(p) ==
    \E req \in SensorIdRequests :
        /\ reply' = [op |-> "GetBySensorId", db |-> p, key |-> req.SensorId,
                     resp |-> GetSensorDataBySensorId(Svc(p), req)]
        /\ UNCHANGED <<lockVars, svcVars, timeVars, coordVars>>

RpcUpdate(p) ==
    \E req \in SensorDataRequests(now, Payloads) :
        LET r == UpdateSensorData(Svc(p), req)
        IN /\ SetSvc(p, r.s)
           /\ reply' = [op |-> "Update", db |-> p, key |-> req.SensorId, resp |-> r.resp]
           /\ UNCHANGED <<lockVars, timeVars, coordVars>>

RpcDelete(p) ==
    \E req \in SensorIdRequests :
        LET r == DeleteSensorData(Svc(p), req)
        IN /\ SetSvc(p, r.s)
           /\ reply' = [op |-> "Delete", db |-> p, key |-> req.SensorId, resp |-> r.resp]
           /\ UNCHANGED <<lockVars, timeVars, coordVars>>

(* ------------- participant-level specification, one service ----------- *)
TargetDB == CHOOSE p \in DBs : \A q \in DBs : p <= q

InitDB == \E l \in 0..MaxLimit : InitServices([p \in DBs |-> l])

NextDB ==
    \/ RpcCreate(TargetDB, SensorDataRequests(now, NewPayloads))
    \/ RpcPrepare(TargetDB, TransactionRequests(now))
    \/ RpcCommit(TargetDB, TransactionIdRequests)
    \/ RpcAbort(TargetDB, TransactionIdRequests)
    \/ RpcGetAll(TargetDB)
    \/ RpcGetBySensorId(TargetDB)
    \/ RpcUpdate(TargetDB)
    \/ RpcDelete(TargetDB)

SpecDB == InitDB /\ [][NextDB]_vars

(* ------------------- the cleanup goroutine and the clock --------------- *)
(* Every service is created at time 0 with a 5 s ticker, so the next timer *)
(* instant is now + CleanupInterval.  A running cleanup goroutine takes a  *)
(* buffered tick before the next one is due.                               *)
AdvanceTime ==
    /\ now < MaxTime
    /\ \A p \in DBs : ~(ticks[p] = 1 /\ sweeper[p] = "running")
    /\ now' = now + CleanupInterval
    /\ ticks' = [p \in DBs |-> IF sweeper[p] = "running" THEN 1 ELSE ticks[p]]
    /\ UNCHANGED <<lockVars, svcVars, stopCleanup, grpcServer, sweeper, expired, reply, coordVars>>

(* case <-s.cleanupTicker.C: s.cleanupExpiredTransactions() *)
SweeperTick(p) ==
    /\ sweeper[p] = "running"
    /\ ticks[p] = 1
    /\ ticks' = [ticks EXCEPT ![p] = 0]
    /\ SetSvc(p, CleanupExpiredTransactions(Svc(p), now))
    /\ expired' = [expired EXCEPT ![p] = @ \cup
            (DOMAIN preparedTxns[p] \ DOMAIN CleanupExpiredTransactions(Svc(p), now).preparedTxns)]
    /\ UNCHANGED <<lockVars, now, stopCleanup, grpcServer, sweeper, reply, coordVars>>

(* case <-s.stopCleanup: s.cleanupTicker.Stop(); return *)
SweeperStop(p) ==
    /\ sweeper[p] = "running"
    /\ stopCleanup[p]
    /\ sweeper' = [sweeper EXCEPT ![p] = "exited"]
    /\ UNCHANGED <<lockVars, svcVars, now, ticks, stopCleanup, grpcServer, expired, reply, coordVars>>

(* Stop(): close(s.stopCleanup); a second close panics, so it is called once *)
Stop(p) ==
    /\ ~stopCleanup[p]
    /\ stopCleanup' = [stopCleanup EXCEPT ![p] = TRUE]
    /\ UNCHANGED <<lockVars, svcVars, now, ticks, grpcServer, sweeper, expired, reply, coordVars>>

(* ------- expiry specification: one service, its sweeper and the clock --- *)
ExpiryPrepares ==
    {[TransactionId |-> id,
      SensorData |-> [SensorId |-> sid, Timestamp |-> 0,
                      Value |-> pl[1], Unit |-> pl[2]]] :
        id \in TxnIds, sid \in SensorIds, pl \in NewPayloads}

ExpiryDecisions == {[TransactionId |-> id] : id \in TxnIds}

InitExpiry == InitServices([p \in DBs |-> 1])

NextExpiry ==
    \/ RpcPrepare(TargetDB, ExpiryPrepares)
    \/ RpcCommit(TargetDB, ExpiryDecisions)
    \/ RpcAbort(TargetDB, ExpiryDecisions)
    \/ AdvanceTime
    \/ \E p \in DBs : SweeperTick(p)
    \/ SweeperStop(TargetDB)
    \/ Stop(TargetDB)

SpecExpiry == InitExpiry /\ [][NextExpiry]_vars

(* ------------- stop specification: the service after Stop() ------------ *)
(* As SpecExpiry, with a cleanup goroutine that is scheduled in time: it   *)
(* takes a ready case of its select (a tick, the closed stop channel)      *)
(* before the ticker fires again, the body of the loop being negligible    *)
(* against the 5 s of the ticker.                                          *)
StopPrepares == {req \in ExpiryPrepares : req.SensorData.SensorId = "s1"}

(* variant: the goroutine may leave the closed stop channel unread over    *)
(* any number of ticks                                                     *)
TimelyTick_Untimely == AdvanceTime

TimelyTick ==
    /\ \A p \in DBs : ~(stopCleanup[p] /\ sweeper[p] = "running")
    /\ AdvanceTime

NextStop ==
    \/ RpcPrepare(TargetDB, StopPrepares)
    \/ RpcCommit(TargetDB, ExpiryDecisions)
    \/ RpcAbort(TargetDB, ExpiryDecisions)
    \/ TimelyTick
    \/ \E p \in DBs : SweeperTick(p)
    \/ SweeperStop(TargetDB)
    \/ Stop(TargetDB)

SpecStop == InitExpiry /\ [][NextStop]_vars

(* the scheduler runs the cleanup goroutine when a case of its select is   *)
(* ready; nothing is assumed about the clients or about the clock          *)
FairSpecStop ==
    /\ SpecStop
    /\ WF_vars(SweeperStop(TargetDB))
    /\ \A p \in DBs : WF_vars(SweeperTick(p))

(* ------------- the main of a database server and its shutdown --------- *)
(* <-sigChan: main goes on to grpcServer.GracefulStop(), which takes no new *)
(* RPC and waits for the pending ones                                       *)
Signal(p) ==
    /\ grpcServer[p] = "serving"
    /\ grpcServer' = [grpcServer EXCEPT ![p] = "draining"]
    /\ UNCHANGED <<lockVars, svcVars, now, ticks, stopCleanup, sweeper, expired,
                   reply, coordVars>>

(* GracefulStop returns; main logs "Database server stopped" *)
GracefulStopReturns(p) ==
    /\ grpcServer[p] = "draining"
    /\ grpcServer' = [grpcServer EXCEPT ![p] = "stopped"]
    /\ UNCHANGED <<lockVars, svcVars, now, ticks, stopCleanup, sweeper, expired,
                   reply, coordVars>>

(* main returns: the process ends and its goroutines with it *)
Exit(p) ==
    /\ grpcServer[p] = "stopped"
    /\ grpcServer' = [grpcServer EXCEPT ![p] = "exited"]
    /\ sweeper' = [sweeper EXCEPT ![p] = "killed"]
    /\ UNCHANGED <<lockVars, svcVars, now, ticks, stopCleanup, expired, reply, coordVars>>

(* an RPC is taken while the server serves *)
ServingPrepare(p) == grpcServer[p] = "serving" /\ RpcPrepare(p, ExpiryPrepares)

InitShutdown == InitServices([p \in DBs |-> 1])

NextShutdown ==
    \/ ServingPrepare(TargetDB)
    \/ AdvanceTime
    \/ \E p \in DBs : SweeperTick(p)
    \/ Signal(TargetDB)
    \/ GracefulStopReturns(TargetDB)
    \/ Exit(TargetDB)

SpecShutdown == InitShutdown /\ [][NextShutdown]_vars

(* ============ the coordinator: AddDataPointWithTwoPhaseCommit ========= *)
(* An activation sends one RPC at a time (5 s deadline each).  The server  *)
(* handles a sent request in one step (its handler runs under txnMutex);   *)
(* the caller then takes the answer, or gives up with an error (transport  *)
(* failure or deadline) whether or not the server has handled the request. *)
(* A request given up before the server handled it is lost or stays under  *)
(* way in `late`.                                                          *)
(* the measurements a caller submits: of its own sensor, or one without a *)
(* sensor id (which every participant refuses)                            *)
SensorOf(c) == <<"s1", "s2">>[c]

CallData(c, t) ==
    {[SensorID |-> id, Timestamp |-> t, Value |-> pl[1], Unit |-> pl[2]] :
        id \in {SensorOf(c), ""}, pl \in NewPayloads}

(* the request the activation has in flight *)
Request(c) ==
    [op |-> call[c].pc, db |-> call[c].i, txn |-> GenerateTransactionID(c),
     sd |-> call[c].sensorData]

Send(cs, op, p) ==
    [cs EXCEPT !.pc = op, !.i = p, !.rpc = "sent", !.elapsed = FALSE,
               !.resp = NilResponse,
               !.prepSent = IF op = "prepare" THEN @ \cup {p} ELSE @,
               !.decSent = IF op = "prepare" THEN @ ELSE @ \cup {<<op, p>>}]

(* the activation returns: its locals are gone, the caller holds result *)
Return(cs, result) ==
    [IdleCall EXCEPT !.pc = "done", !.sensorData = cs.sensorData, !.result = result,
                     !.seqAt = cs.seqAt, !.prepSent = cs.prepSent,
                     !.decSent = cs.decSent, !.decErr = cs.decErr]

(* the outcome of the Prepare at database p is not a YES *)
NotYes(cs, p) ==
    \/ cs.prepareErrors[p]
    \/ cs.prepareResponses[p] = NilResponse
    \/ ~cs.prepareResponses[p].Success

(* variant: the prepare loop ends at the first outcome that is not a YES *)
AfterPrepare_ShortCircuit(cs) ==
    IF NotYes(cs, cs.i)
    THEN Send([cs EXCEPT !.count = 0, !.lastError = ""], "abort", FirstDB)
    ELSE IF cs.i # LastDB
         THEN Send(cs, "prepare", cs.i + 1)
         ELSE Send([cs EXCEPT !.count = 0, !.lastError = ""], "commit", FirstDB)

(* the prepare loop moves on; after the last client the decision is taken  *)
(* and commitAll or abortAll starts                                        *)
AfterPrepare(cs) ==
    IF cs.i # LastDB
    THEN Send(cs, "prepare", cs.i + 1)
    ELSE IF AllPrepared(cs.prepareResponses, cs.prepareErrors)
         THEN Send([cs EXCEPT !.count = 0, !.lastError = ""], "commit", FirstDB)
         ELSE Send([cs EXCEPT !.count = 0, !.lastError = ""], "abort", FirstDB)

(* variant: the loop of commitAll ends after the first successful commit *)
AfterCommit_FirstOnly(cs) ==
    IF cs.i # LastDB /\ cs.count = 0
    THEN Send(cs, "commit", cs.i + 1)
    ELSE Return(cs, CommitAllResult(IF cs.count > 0 THEN Cardinality(DBs) ELSE 0,
                                    cs.lastError))

(* variant: the loop of commitAll leaves out the last client *)
AfterCommit_SkipsLast(cs) ==
    IF cs.i # LastDB /\ cs.i + 1 # LastDB
    THEN Send(cs, "commit", cs.i + 1)
    ELSE Return(cs, CommitAllResult(cs.count + 1, cs.lastError))

(* the loop of commitAll moves on, or commitAll returns *)
AfterCommit(cs) ==
    IF cs.i # LastDB
    THEN Send(cs, "commit", cs.i + 1)
    ELSE Return(cs, CommitAllResult(cs.count, cs.lastError))

(* the loop of abortAll moves on, or abortAll returns *)
AfterAbort(cs) ==
    IF cs.i # LastDB
    THEN Send(cs, "abort", cs.i + 1)
    ELSE Return(cs, AbortAllResult(cs.count, cs.lastError))

(* lastError = err in the loop of commitAll / abortAll *)
Failed(cs, err) == [cs EXCEPT !.lastError = err, !.decErr[cs.i] = err]

(* Client.CommitTransaction / Client.AbortTransaction: err, or !resp.Success *)
Counted(cs) ==
    IF cs.resp.Success
    THEN [cs EXCEPT !.count = @ + 1]
    ELSE Failed(cs, cs.resp.Message)

Busy(c) == call[c].pc \notin {"idle", "done"}

StartCall(c) ==
    /\ call[c].pc = "idle"
    /\ \E sd \in CallData(c, now) :
          call' = [call EXCEPT ![c] = Send([@ EXCEPT !.sensorData = sd], "prepare", FirstDB)]
    /\ overlapped' = (overlapped \/ \E d \in Calls : Busy(d))
    /\ UNCHANGED <<lockVars, svcVars, timeVars, reply, late>>

(* the server of the request in flight runs its handler *)
ServePrepare(c) ==
    /\ call[c].pc = "prepare" /\ call[c].rpc = "sent"
    /\ LET req == [TransactionId |-> GenerateTransactionID(c),
                   SensorData |-> SensorDataToProto(call[c].sensorData)]
           r == PrepareTransaction(Svc(call[c].i), req, now)
       IN /\ SetSvc(call[c].i, r.s)
          /\ call' = [call EXCEPT ![c].rpc = "replied", ![c].resp = r.resp]
    /\ UNCHANGED <<lockVars, timeVars, reply, late, overlapped>>

ServeCommit(c) ==
    /\ call[c].pc = "commit" /\ call[c].rpc = "sent"
    /\ LET r == CommitTransaction(Svc(call[c].i), [TransactionId |-> GenerateTransactionID(c)])
       IN /\ SetSvc(call[c].i, r.s)
          /\ call' = [call EXCEPT ![c].rpc = "replied", ![c].resp = r.resp,
                                  ![c].seqAt[call[c].i] =
                                      IF r.resp.Success THEN r.s.appended ELSE @]
    /\ UNCHANGED <<lockVars, timeVars, reply, late, overlapped>>

ServeAbort(c) ==
    /\ call[c].pc = "abort" /\ call[c].rpc = "sent"
    /\ LET r == AbortTransaction(Svc(call[c].i), [TransactionId |-> GenerateTransactionID(c)])
       IN /\ SetSvc(call[c].i, r.s)
          /\ call' = [call EXCEPT ![c].rpc = "replied", ![c].resp = r.resp]
    /\ UNCHANGED <<lockVars, timeVars, reply, late, overlapped>>

(* resp, err := client.PrepareTransaction(...): the answer arrived *)
RecvPrepare(c) ==
    /\ call[c].pc = "prepare" /\ call[c].rpc = "replied"
    /\ call' = [call EXCEPT ![c] =
            AfterPrepare([@ EXCEPT !.prepareResponses[@.i] = call[c].resp,
                                   !.prepareErrors[call[c].i] = FALSE])]
    /\ UNCHANGED <<lockVars, svcVars, timeVars, reply, late, overlapped>>

RecvCommit(c) ==
    /\ call[c].pc = "commit" /\ call[c].rpc = "replied"
    /\ call' = [call EXCEPT ![c] = AfterCommit(Counted(@))]
    /\ UNCHANGED <<lockVars, svcVars, timeVars, reply, late, overlapped>>

RecvAbort(c) ==
    /\ call[c].pc = "abort" /\ call[c].rpc = "replied"
    /\ call' = [call EXCEPT ![c] = AfterAbort(Counted(@))]
    /\ UNCHANGED <<lockVars, svcVars, timeVars, reply, late, overlapped>>

(* the RPC in flight ends with an error at the caller; a request the server *)
(* has not handled yet is lost (stay = FALSE) or stays under way            *)
GiveUp(c, stay) ==
    /\ call[c].rpc \in {"sent", "replied"}
    /\ stay => call[c].rpc = "sent" /\ Cardinality(late) < MaxLate
    /\ late' = IF stay THEN late \cup {Request(c)} ELSE late

ErrPrepare(c) ==
    /\ call[c].pc = "prepare"
    /\ \E stay \in BOOLEAN : GiveUp(c, stay)
    /\ call' = [call EXCEPT ![c] =
            AfterPrepare([@ EXCEPT !.prepareResponses[@.i] = NilResponse,
                                   !.prepareErrors[call[c].i] = TRUE])]
    /\ UNCHANGED <<lockVars, svcVars, timeVars, reply, overlapped>>

ErrCommit(c) ==
    /\ call[c].pc = "commit"
    /\ \E stay \in BOOLEAN : GiveUp(c, stay)
    /\ call' = [call EXCEPT ![c] = AfterCommit(Failed(@, RpcError))]
    /\ UNCHANGED <<lockVars, svcVars, timeVars, reply, overlapped>>

ErrAbort(c) ==
    /\ call[c].pc = "abort"
    /\ \E stay \in BOOLEAN : GiveUp(c, stay)
    /\ call' = [call EXCEPT ![c] = AfterAbort(Failed(@, RpcError))]
    /\ UNCHANGED <<lockVars, svcVars, timeVars, reply, overlapped>>

(* a request whose caller gave up reaches its server; nobody reads the answer *)
ServeLate(m) ==
    /\ m \in late
    /\ late' = late \ {m}
    /\ LET s == Svc(m.db)
           r == CASE m.op = "prepare" ->
                       PrepareTransaction(s, [TransactionId |-> m.txn,
                                              SensorData |-> SensorDataToProto(m.sd)], now)
                  [] m.op = "commit" -> CommitTransaction(s, [TransactionId |-> m.txn])
                  [] m.op = "abort" -> AbortTransaction(s, [TransactionId |-> m.txn])
       IN SetSvc(m.db, r.s)
    /\ UNCHANGED <<lockVars, timeVars, reply, call, overlapped>>

(* --------------- the protocol specification: two services -------------- *)
Init == \E limits \in [DBs -> 1..MaxLimit] : InitServices(limits)

Next ==
    \/ \E c \in Calls : StartCall(c)
    \/ \E c \in Calls : ServePrepare(c)
    \/ \E c \in Calls : RecvPrepare(c)
    \/ \E c \in Calls : ErrPrepare(c)
    \/ \E c \in Calls : ServeCommit(c)
    \/ \E c \in Calls : RecvCommit(c)
    \/ \E c \in Calls : ErrCommit(c)
    \/ \E c \in Calls : ServeAbort(c)
    \/ \E c \in Calls : RecvAbort(c)
    \/ \E c \in Calls : ErrAbort(c)
    \/ \E m \in late : ServeLate(m)

Spec == Init /\ [][Next]_vars

(* ------- the protocol with the clock, the sweepers and a crash --------- *)
(* The process of the coordinator dies while an activation is in its       *)
(* prepare loop: the activation takes no further step; the request it had  *)
(* in flight is lost or still reaches its server.                          *)
Crash(c) ==
    /\ call[c].pc = "prepare"
    /\ \E stay \in BOOLEAN : GiveUp(c, stay)
    /\ call' = [call EXCEPT ![c].pc = "crashed", ![c].rpc = "none"]
    /\ UNCHANGED <<lockVars, svcVars, timeVars, reply, overlapped>>

(* the clock stops at MaxTime: a Prepare is served only while the expiry   *)
(* of its entry is still within the time modelled                          *)
PrepareWindow == now + TxnTimeout + CleanupInterval <= MaxTime

(* the calls of this specification come one after the other, and an RPC   *)
(* fails only by the death of its caller                                   *)
Turn(c) == \A d \in Calls : d < c => call[d].pc \in {"done", "crashed"}

TurnStart(c) == Turn(c) /\ StartCall(c)

WindowServePrepare(c) == PrepareWindow /\ ServePrepare(c)

WindowServeLate(m) == (m.op = "prepare" => PrepareWindow) /\ ServeLate(m)

InitCrash == InitServices([p \in DBs |-> 1])

NextCrash ==
    \/ \E c \in Calls : TurnStart(c)
    \/ \E c \in Calls : WindowServePrepare(c)
    \/ \E c \in Calls : RecvPrepare(c)
    \/ \E c \in Calls : ServeCommit(c)
    \/ \E c \in Calls : RecvCommit(c)
    \/ \E c \in Calls : ServeAbort(c)
    \/ \E c \in Calls : RecvAbort(c)
    \/ \E m \in late : WindowServeLate(m)
    \/ \E c \in Calls : Crash(c)
    \/ AdvanceTime
    \/ \E p \in DBs : SweeperTick(p)

SpecCrash == InitCrash /\ [][NextCrash]_vars

(* the clock advances and every cleanup goroutine is scheduled (no server  *)
(* main calls Stop); nothing is assumed about the steps of the coordinator *)
FairSpecCrash ==
    /\ SpecCrash
    /\ WF_vars(AdvanceTime)
    /\ \A p \in DBs : WF_vars(SweeperTick(p))

(* ------ the protocol with the clock, the sweepers and RPC failures ----- *)
(* One activation whose RPCs may fail at the caller (deadline or           *)
(* transport) while the request stays under way, with the clock and the    *)
(* cleanup goroutines.  A Prepare fails here before the server has handled *)
(* it, so that an entry of a Prepare counted as an error is the work of    *)
(* the request that stayed under way (Spec has the answer that is lost).   *)
TimedCall == CHOOSE c \in Calls : \A d \in Calls : c <= d

DeadlinePrepare(c) == call[c].rpc = "sent" /\ ErrPrepare(c)

InitTimeout == InitServices([p \in DBs |-> 1])

NextTimeout ==
    \/ StartCall(TimedCall)
    \/ WindowServePrepare(TimedCall)
    \/ RecvPrepare(TimedCall)
    \/ DeadlinePrepare(TimedCall)
    \/ ServeCommit(TimedCall)
    \/ RecvCommit(TimedCall)
    \/ ErrCommit(TimedCall)
    \/ ServeAbort(TimedCall)
    \/ RecvAbort(TimedCall)
    \/ ErrAbort(TimedCall)
    \/ \E m \in late : WindowServeLate(m)
    \/ AdvanceTime
    \/ \E p \in DBs : SweeperTick(p)

SpecTimeout == InitTimeout /\ [][NextTimeout]_vars

(* the clock advances and every cleanup goroutine is scheduled; nothing is *)
(* assumed about the coordinator or about a request under way              *)
FairSpecTimeout ==
    /\ SpecTimeout
    /\ WF_vars(AdvanceTime)
    /\ \A p \in DBs : WF_vars(SweeperTick(p))

(* ------------- the protocol under the deadlines of its RPCs ------------ *)
(* One activation whose coordinator is alive: it goes from one RPC to the  *)
(* next in no time, and each RPC ends at the caller within its deadline    *)
(* (context.WithTimeout of RpcDeadline seconds): with the answer, or with  *)
(* an error while the request is lost, handled, or still under way.  The   *)
(* clock counts in steps of the deadline, which is also the period of the  *)
(* ticker: an RPC in flight sees at most one of them.                      *)
InFlight(c) == call[c].rpc \in {"sent", "replied"}

(* variant: the RPCs have no deadline *)
DeadlineTick_NoDeadline ==
    /\ now < MaxTime
    /\ \A p \in DBs : ~(ticks[p] = 1 /\ sweeper[p] = "running")
    /\ now' = now + RpcDeadline
    /\ ticks' = [p \in DBs |-> IF sweeper[p] = "running" THEN 1 ELSE ticks[p]]
    /\ call' = [c \in Calls |-> IF InFlight(c) THEN [call[c] EXCEPT !.elapsed = TRUE]
                                 ELSE call[c]]
    /\ UNCHANGED <<lockVars, svcVars, stopCleanup, grpcServer, sweeper, expired, reply,
                   late, overlapped>>

(* RpcDeadline seconds pass; the ticker of each service fires *)
DeadlineTick ==
    /\ now < MaxTime
    /\ \A p \in DBs : ~(ticks[p] = 1 /\ sweeper[p] = "running")
    /\ \A c \in Calls : InFlight(c) => ~call[c].elapsed
    /\ now' = now + RpcDeadline
    /\ ticks' = [p \in DBs |-> IF sweeper[p] = "running" THEN 1 ELSE ticks[p]]
    /\ call' = [c \in Calls |-> IF InFlight(c) THEN [call[c] EXCEPT !.elapsed = TRUE]
                                 ELSE call[c]]
    /\ UNCHANGED <<lockVars, svcVars, stopCleanup, grpcServer, sweeper, expired, reply,
                   late, overlapped>>

InitDeadline == InitServices([p \in DBs |-> 1])

NextDeadline ==
    \/ StartCall(TimedCall)
    \/ ServePrepare(TimedCall)
    \/ RecvPrepare(TimedCall)
    \/ ErrPrepare(TimedCall)
    \/ ServeCommit(TimedCall)
    \/ RecvCommit(TimedCall)
    \/ ErrCommit(TimedCall)
    \/ ServeAbort(TimedCall)
    \/ RecvAbort(TimedCall)
    \/ ErrAbort(TimedCall)
    \/ \E m \in late : ServeLate(m)
    \/ DeadlineTick
    \/ \E p \in DBs : SweeperTick(p)

SpecDeadline == InitDeadline /\ [][NextDeadline]_vars

(* --------- the reads of the coordinator over the two services --------- *)
(* Each service is written directly (Create) so that the two logs differ;  *)
(* a read is called with any set of databases reachable at that moment.    *)
ReadGetAllDataPoints ==
    \E reachable \in SUBSET DBs :
        /\ reply' = [op |-> "GetAllDataPoints", key |-> "", reachable |-> reachable,
                     result |-> GetAllDataPoints([p \in DBs |-> Svc(p)], reachable)]
        /\ UNCHANGED <<lockVars, svcVars, timeVars, coordVars>>

ReadGetDataPointBySensorId ==
    \E reachable \in SUBSET DBs : \E sensorID \in SensorIds \cup {""} :
        /\ reply' = [op |-> "GetDataPointBySensorId", key |-> sensorID,
                     reachable |-> reachable,
                     result |-> GetDataPointBySensorId([p \in DBs |-> Svc(p)],
                                                       sensorID, reachable)]
        /\ UNCHANGED <<lockVars, svcVars, timeVars, coordVars>>

InitRead == \E limits \in [DBs -> 1..MaxLimit] : InitServices(limits)

NextRead ==
    \/ \E p \in DBs : RpcCreate(p, SensorDataRequests(now, NewPayloads))
    \/ ReadGetAllDataPoints
    \/ ReadGetDataPointBySensorId

SpecRead == InitRead /\ [][NextRead]_vars

(* ------------- the construction of the coordinator's client ----------- *)
NewTwoPhaseCommitClient ==
    \E serverAddresses \in AddressLists : \E bad \in SUBSET Addresses :
        /\ reply' = [op |-> "TwoPhaseCommitClientFactory",
                     serverAddresses |-> serverAddresses, bad |-> bad,
                     result |-> TwoPhaseCommitClientFactory(serverAddresses, bad)]
        /\ UNCHANGED <<lockVars, svcVars, timeVars, coordVars>>

(* tpc.Close() of a client that was constructed *)
CloseTwoPhaseCommitClient ==
    /\ reply.op = "TwoPhaseCommitClientFactory"
    /\ reply.result.err = ""
    /\ \E failing \in SUBSET reply.result.opened :
          reply' = [op |-> "Close", clients |-> reply.result.clients, failing |-> failing,
                    result |-> CloseFrom(reply.result.clients, failing, 1,
                                         Closing(<<>>, NilError))]
    /\ UNCHANGED <<lockVars, svcVars, timeVars, coordVars>>

InitFactory == InitServices([p \in DBs |-> 1])

NextFactory == NewTwoPhaseCommitClient \/ CloseTwoPhaseCommitClient

SpecFactory == InitFactory /\ [][NextFactory]_vars

(* ====== lock-level specification: the handlers of one service ========= *)
(* Every request runs in a goroutine; a goroutine that has returned stands *)
(* for the next one.  A handler validates its                              *)
(* request, takes its mutexes one after the other (Lock blocks until the   *)
(* mutex is free), runs its body and releases what it holds as its         *)
(* deferred Unlock calls run.  The cleanup goroutine takes txnMutex for    *)
(* each sweep.                                                             *)
LockOps == {"Prepare", "Commit", "Abort", "Create", "Update", "Delete",
            "GetAll", "GetBySensorId"}

LockTxnIds == {"txn_1", ""}

LockSensorIds == {"s1"}

(* g1 serves the requests of the coordinator, g2 requests of any kind *)
ThreadOps(t) == IF t = "g1" THEN {"Prepare", "Commit", "Abort"} ELSE LockOps

(* the requests a goroutine may serve *)
LockRequests(op) ==
    CASE op = "Prepare" ->
            {[TransactionId |-> id,
              SensorData |-> [SensorId |-> sid, Timestamp |-> 0, Value |-> pl[1], Unit |-> pl[2]]] :
                id \in LockTxnIds, sid \in LockSensorIds, pl \in NewPayloads}
      [] op \in {"Commit", "Abort"} -> {[TransactionId |-> id] : id \in LockTxnIds}
      [] op \in {"Create", "Update"} ->
            {[SensorId |-> sid, Timestamp |-> 0, Value |-> pl[1], Unit |-> pl[2]] :
                sid \in LockSensorIds, pl \in NewPayloads}
      [] op \in {"Delete", "GetBySensorId"} -> {[SensorId |-> sid] : sid \in LockSensorIds}
      [] op = "GetAll" -> {[Empty |-> TRUE]}

(* the handler of op as a function of the state: [s, resp] *)
Handle(op, s, req, t) ==
    CASE op = "Prepare" -> PrepareTransaction(s, req, t)
      [] op = "Commit" -> CommitTransaction(s, req)
      [] op = "Abort" -> AbortTransaction(s, req)
      [] op = "Create" -> CreateSensorData(s, req, t)
      [] op = "Update" -> UpdateSensorData(s, req)
      [] op = "Delete" -> DeleteSensorData(s, req)
      [] op = "GetAll" -> [s |-> s, resp |-> GetAllSensorData(s)]
      [] op = "GetBySensorId" -> [s |-> s, resp |-> GetSensorDataBySensorId(s, req)]

(* the handler returns before it takes any mutex *)
ReturnsEarly(op, req) ==
    CASE op \in {"Prepare", "Commit", "Abort"} -> req.TransactionId = ""
      [] op \in {"Create", "Update", "Delete", "GetBySensorId"} -> req.SensorId = ""
      [] op = "GetAll" -> FALSE

(* variant: the read handlers take txnMutex before they read the log *)
LocksOf_ReadsUnderTxnMutex(op) ==
    CASE op \in {"Prepare", "Abort"} -> <<"txnMutex">>
      [] op = "Commit" -> <<"txnMutex", "mu">>
      [] op \in {"Create", "Update", "Delete"} -> <<"mu">>
      [] op \in {"GetAll", "GetBySensorId"} -> <<"txnMutex", "mu.R">>

(* variant: PrepareTransaction also reads the log, under mu.RLock *)
LocksOf_PrepareReadsLog(op) ==
    CASE op = "Prepare" -> <<"txnMutex", "mu.R">>
      [] op = "Abort" -> <<"txnMutex">>
      [] op = "Commit" -> <<"txnMutex", "mu">>
      [] op \in {"Create", "Update", "Delete"} -> <<"mu">>
      [] op \in {"GetAll", "GetBySensorId"} -> <<"mu.R">>

(* variant: DeleteSensorData also takes txnMutex while it holds mu *)
LocksOf_DeleteNested(op) ==
    CASE op \in {"Prepare", "Abort"} -> <<"txnMutex">>
      [] op = "Commit" -> <<"txnMutex", "mu">>
      [] op \in {"Create", "Update"} -> <<"mu">>
      [] op = "Delete" -> <<"mu", "txnMutex">>
      [] op \in {"GetAll", "GetBySensorId"} -> <<"mu.R">>

(* variant: CommitTransaction runs under mu alone, without txnMutex *)
LocksOf_CommitUnderMuOnly(op) ==
    CASE op \in {"Prepare", "Abort"} -> <<"txnMutex">>
      [] op \in {"Commit", "Create", "Update", "Delete"} -> <<"mu">>
      [] op \in {"GetAll", "GetBySensorId"} -> <<"mu.R">>

(* the mutexes a handler takes, in the order in which it takes them:       *)
(* CommitTransaction calls addDataPointInternal (mu) under txnMutex        *)
LocksOf(op) ==
    CASE op \in {"Prepare", "Abort"} -> <<"txnMutex">>
      [] op = "Commit" -> <<"txnMutex", "mu">>
      [] op \in {"Create", "Update", "Delete"} -> <<"mu">>
      [] op \in {"GetAll", "GetBySensorId"} -> <<"mu.R">>

(* CommitTransaction returns under txnMutex alone when the transaction is  *)
(* not prepared                                                            *)
Wanted(th) ==
    IF th.k >= Len(LocksOf(th.op)) THEN NoHolder
    ELSE IF /\ th.op = "Commit" /\ th.k = 1
            /\ th.req.TransactionId \notin DOMAIN preparedTxns[TargetDB]
         THEN NoHolder
         ELSE LocksOf(th.op)[th.k + 1]

Free(m) ==
    CASE m = "txnMutex" -> txnMutex = NoHolder
      [] m = "mu" -> mu.writer = NoHolder /\ mu.readers = {}
      [] m = "mu.R" -> mu.writer = NoHolder

(* holder takes (take = TRUE) or releases mutex m *)
SetLock(m, holder, take) ==
    /\ txnMutex' = IF m = "txnMutex" THEN (IF take THEN holder ELSE NoHolder) ELSE txnMutex
    /\ mu' = CASE m = "mu" -> [mu EXCEPT !.writer = IF take THEN holder ELSE NoHolder]
               [] m = "mu.R" -> [mu EXCEPT !.readers = IF take THEN @ \cup {holder}
                                                      ELSE @ \ {holder}]
               [] OTHER -> mu

(* the handlers under way that may still append to the log *)
Appending == {t \in Threads : thread[t].pc = "run" /\ thread[t].op \in {"Create", "Commit"}}

(* a request arrives and its handler starts *)
Serve(t) ==
    /\ thread[t].pc \in {"idle", "done"}
    /\ \E op \in ThreadOps(t) : \E req \in LockRequests(op) :
          /\ op \in {"Create", "Commit"}
                => appended[TargetDB] + Cardinality(Appending) < MaxAppends
          /\ thread' = [thread EXCEPT ![t] =
                IF ReturnsEarly(op, req)
                THEN [IdleThread EXCEPT !.pc = "done"]
                ELSE [IdleThread EXCEPT !.pc = "run", !.op = op, !.req = req]]
    /\ UNCHANGED <<svcVars, timeVars, reply, coordVars, mu, txnMutex>>

(* Lock() / RLock() returns *)
Acquire(t) ==
    /\ thread[t].pc = "run"
    /\ Wanted(thread[t]) # NoHolder
    /\ Free(Wanted(thread[t]))
    /\ SetLock(Wanted(thread[t]), t, TRUE)
    /\ thread' = [thread EXCEPT ![t].k = @ + 1]
    /\ UNCHANGED <<svcVars, timeVars, reply, coordVars>>

(* the body of the handler, under the mutexes it took, and the Unlock of  *)
(* the mutex it took last (in CommitTransaction: the deferred Unlock of    *)
(* addDataPointInternal; delete(s.preparedTxns, id) follows under txnMutex)*)
RunLocked(t) ==
    /\ thread[t].pc = "run"
    /\ Wanted(thread[t]) = NoHolder
    /\ LET r == Handle(thread[t].op, Svc(TargetDB), thread[t].req, now)
       IN /\ SetSvc(TargetDB, r.s)
          /\ SetLock(LocksOf(thread[t].op)[thread[t].k], t, FALSE)
          /\ thread' = [thread EXCEPT ![t] =
                IF thread[t].k = 1
                THEN [IdleThread EXCEPT !.pc = "done"]
                ELSE [@ EXCEPT !.pc = "unlock", !.k = @ - 1]]
    /\ UNCHANGED <<timeVars, reply, coordVars>>

(* the remaining deferred Unlock() runs and the handler returns *)
Unlock(t) ==
    /\ thread[t].pc = "unlock"
    /\ SetLock(LocksOf(thread[t].op)[thread[t].k], t, FALSE)
    /\ thread' = [thread EXCEPT ![t] =
          IF thread[t].k = 1
          THEN [IdleThread EXCEPT !.pc = "done"]
          ELSE [@ EXCEPT !.k = @ - 1]]
    /\ UNCHANGED <<svcVars, timeVars, reply, coordVars>>

(* the ticker fires: its channel buffers one tick *)
Tick ==
    /\ now < MaxTime
    /\ now' = now + CleanupInterval
    /\ ticks' = [p \in DBs |-> IF sweeper[p] # "exited" THEN 1 ELSE ticks[p]]
    /\ UNCHANGED <<svcVars, stopCleanup, grpcServer, sweeper, expired, reply, coordVars, lockVars>>

(* case <-s.cleanupTicker.C: the cleanup goroutine calls                   *)
(* cleanupExpiredTransactions                                              *)
SweeperWake(p) ==
    /\ sweeper[p] = "running"
    /\ ticks[p] = 1
    /\ ticks' = [ticks EXCEPT ![p] = 0]
    /\ sweeper' = [sweeper EXCEPT ![p] = "locking"]
    /\ UNCHANGED <<svcVars, now, stopCleanup, grpcServer, expired, reply, coordVars, lockVars>>

(* s.txnMutex.Lock() returns in cleanupExpiredTransactions *)
SweeperLock(p) ==
    /\ sweeper[p] = "locking"
    /\ Free("txnMutex")
    /\ SetLock("txnMutex", "sweeper", TRUE)
    /\ sweeper' = [sweeper EXCEPT ![p] = "cleaning"]
    /\ UNCHANGED <<svcVars, now, ticks, stopCleanup, grpcServer, expired, reply, coordVars, thread>>

(* the loop over preparedTxns and the deferred Unlock *)
SweeperClean(p) ==
    /\ sweeper[p] = "cleaning"
    /\ SetSvc(p, CleanupExpiredTransactions(Svc(p), now))
    /\ expired' = [expired EXCEPT ![p] = @ \cup
            (DOMAIN preparedTxns[p] \ DOMAIN CleanupExpiredTransactions(Svc(p), now).preparedTxns)]
    /\ SetLock("txnMutex", "sweeper", FALSE)
    /\ sweeper' = [sweeper EXCEPT ![p] = "running"]
    /\ UNCHANGED <<now, ticks, stopCleanup, grpcServer, reply, coordVars, thread>>

InitLocks == InitServices([p \in DBs |-> 1])

NextLocks ==
    \/ \E t \in Threads : Serve(t)
    \/ \E t \in Threads : Acquire(t)
    \/ \E t \in Threads : RunLocked(t)
    \/ \E t \in Threads : Unlock(t)
    \/ Tick
    \/ SweeperWake(TargetDB)
    \/ SweeperLock(TargetDB)
    \/ SweeperClean(TargetDB)

SpecLocks == InitLocks /\ [][NextLocks]_vars

(* The Go scheduler runs every runnable goroutine, and a goroutine blocked *)
(* in Lock gets the mutex after finitely many hand-overs (sync.Mutex and   *)
(* sync.RWMutex queue their waiters).  A request need not arrive.          *)
FairSpecLocks ==
    /\ SpecLocks
    /\ \A t \in Threads : WF_vars(RunLocked(t) \/ Unlock(t))
    /\ \A t \in Threads : SF_vars(Acquire(t))
    /\ WF_vars(SweeperWake(TargetDB) \/ SweeperClean(TargetDB))
    /\ SF_vars(SweeperLock(TargetDB))

(* ===== race specification: decisions for one txid and the sweeper ====== *)
(* The transactional handlers statement by statement: Lock of txnMutex,    *)
(* the lookup in preparedTxns, addDataPointInternal, delete and the         *)
(* deferred Unlock are steps of their own, so that what keeps two handlers *)
(* apart is the mutex and nothing else.  A goroutine keeps the answer of   *)
(* its handler until the next request arrives at the service.  The         *)
(* coordinator generates a new txid for every call and sends one Prepare   *)
(* per participant before it decides: a txid the sweeper has removed is    *)
(* not prepared again, and no Prepare arrives while its txid is prepared   *)
(* or another request for its txid is under way.                           *)
RaceOps == {"Prepare", "Commit", "Abort"}

RaceRequests(op) == {req \in LockRequests(op) : req.TransactionId # ""}

(* the goroutine has its answer *)
Finished(t) == thread[t].resp # NilResponse

(* the CommitTransaction calls under way that have not appended yet *)
RaceAppending ==
    {t \in Threads : thread[t].op = "Commit" /\ thread[t].pc \in {"run", "locked", "append"}}

(* a request for txid id is under way in goroutine u *)
UnderWay(u, id) ==
    /\ thread[u].pc \notin {"idle", "done"}
    /\ thread[u].req.TransactionId = id

Arrived(op, req) ==
    [IdleThread EXCEPT
        !.pc = "run", !.op = op, !.req = req,
        !.at = IF req.TransactionId \in DOMAIN preparedTxns[TargetDB]
               THEN preparedTxns[TargetDB][req.TransactionId].PreparedAt
               ELSE NoEntry,
        !.seq0 = appended[TargetDB]]

RaceServe(t) ==
    /\ thread[t].pc \in {"idle", "done"}
    /\ \E op \in RaceOps : \E req \in RaceRequests(op) :
          /\ op = "Commit" => appended[TargetDB] + Cardinality(RaceAppending) < MaxAppends
          /\ op = "Prepare" => /\ req.TransactionId \notin expired[TargetDB]
                                /\ req.TransactionId \notin DOMAIN preparedTxns[TargetDB]
                                /\ \A u \in Threads : ~UnderWay(u, req.TransactionId)
          /\ thread' = [u \in Threads |->
                IF u = t THEN Arrived(op, req)
                ELSE IF thread[u].pc = "done" THEN [IdleThread EXCEPT !.pc = "done"]
                ELSE thread[u]]
    /\ UNCHANGED <<svcVars, timeVars, reply, coordVars, mu, txnMutex>>

(* s.txnMutex.Lock() returns, in a handler that takes txnMutex *)
RaceLock(t) ==
    /\ thread[t].pc = "run"
    /\ IF "txnMutex" \in Range(LocksOf(thread[t].op))
       THEN Free("txnMutex") /\ txnMutex' = t
       ELSE UNCHANGED txnMutex
    /\ thread' = [thread EXCEPT ![t].pc = "locked"]
    /\ UNCHANGED <<svcVars, timeVars, reply, coordVars, mu>>

(* PrepareTransaction: the lookup and the store of the new entry *)
RacePrepare(t) ==
    /\ thread[t].pc = "locked" /\ thread[t].op = "Prepare"
    /\ LET r == PrepareTransaction(Svc(TargetDB), thread[t].req, now)
       IN /\ SetSvc(TargetDB, r.s)
          /\ thread' = [thread EXCEPT ![t].pc = "unlock", ![t].resp = r.resp]
    /\ UNCHANGED <<timeVars, reply, coordVars, mu, txnMutex>>

(* txnState, exists := s.preparedTxns[id]; if !exists { return ... } *)
RaceLookup(t) ==
    /\ thread[t].pc = "locked" /\ thread[t].op \in {"Commit", "Abort"}
    /\ LET id == thread[t].req.TransactionId
       IN thread' = [thread EXCEPT ![t] =
             IF id \in DOMAIN preparedTxns[TargetDB]
             THEN [@ EXCEPT !.txnState = preparedTxns[TargetDB][id],
                            !.pc = IF thread[t].op = "Commit" THEN "append" ELSE "delete"]
             ELSE [@ EXCEPT !.pc = "unlock",
                            !.resp = OperationResponse(FALSE, NotFoundMessage(id))]]
    /\ UNCHANGED <<svcVars, timeVars, reply, coordVars, mu, txnMutex>>

(* s.addDataPointInternal(txnState.SensorData), under mu *)
RaceAppend(t) ==
    /\ thread[t].pc = "append"
    /\ Free("mu")
    /\ SetSvc(TargetDB, AddDataPointInternal(Svc(TargetDB), thread[t].txnState.SensorData,
                                             thread[t].req.TransactionId))
    /\ thread' = [thread EXCEPT ![t].pc = "delete"]
    /\ UNCHANGED <<timeVars, reply, coordVars, mu, txnMutex>>

(* delete(s.preparedTxns, id) and the answer of the handler *)
RaceDelete(t) ==
    /\ thread[t].pc = "delete"
    /\ LET id == thread[t].req.TransactionId
       IN /\ preparedTxns' = [preparedTxns EXCEPT ![TargetDB] =
                                  Restrict(@, DOMAIN @ \ {id})]
          /\ thread' = [thread EXCEPT
                ![t].pc = "unlock",
                ![t].resp = OperationResponse(TRUE,
                               IF thread[t].op = "Commit"
                               THEN "Transaction committed successfully"
                               ELSE "Transaction aborted successfully")]
    /\ UNCHANGED <<data, maxDataPoints, appended, timeVars, reply, coordVars, mu, txnMutex>>

(* the deferred s.txnMutex.Unlock() runs and the handler returns *)
RaceUnlock(t) ==
    /\ thread[t].pc = "unlock"
    /\ txnMutex' = IF txnMutex = t THEN NoHolder ELSE txnMutex
    /\ thread' = [thread EXCEPT ![t].pc = "done"]
    /\ UNCHANGED <<svcVars, timeVars, reply, coordVars, mu>>

(* variant: cleanupExpiredTransactions sweeps without txnMutex *)
CleanupLocks_None == <<>>

(* cleanupExpiredTransactions: s.txnMutex.Lock(); defer s.txnMutex.Unlock() *)
CleanupLocks == <<"txnMutex">>

(* s.txnMutex.Lock() returns in cleanupExpiredTransactions *)
RaceSweeperLock(p) ==
    /\ sweeper[p] = "locking"
    /\ IF "txnMutex" \in Range(CleanupLocks)
       THEN Free("txnMutex") /\ txnMutex' = "sweeper"
       ELSE UNCHANGED txnMutex
    /\ sweeper' = [sweeper EXCEPT ![p] = "cleaning"]
    /\ UNCHANGED <<svcVars, now, ticks, stopCleanup, grpcServer, expired, reply, coordVars,
                   thread, mu>>

(* now := time.Now(), the loop over preparedTxns and the deferred Unlock *)
RaceSweeperClean(p) ==
    /\ sweeper[p] = "cleaning"
    /\ SetSvc(p, CleanupExpiredTransactions(Svc(p), now))
    /\ expired' = [expired EXCEPT ![p] = @ \cup
            (DOMAIN preparedTxns[p] \ DOMAIN CleanupExpiredTransactions(Svc(p), now).preparedTxns)]
    /\ txnMutex' = IF txnMutex = "sweeper" THEN NoHolder ELSE txnMutex
    /\ sweeper' = [sweeper EXCEPT ![p] = "running"]
    /\ UNCHANGED <<now, ticks, stopCleanup, grpcServer, reply, coordVars, thread, mu>>

(* the log takes every append of a run, so that none is cut *)
InitRace == InitServices([p \in DBs |-> MaxAppends])

NextRace ==
    \/ \E t \in Threads : RaceServe(t)
    \/ \E t \in Threads : RaceLock(t)
    \/ \E t \in Threads : RacePrepare(t)
    \/ \E t \in Threads : RaceLookup(t)
    \/ \E t \in Threads : RaceAppend(t)
    \/ \E t \in Threads : RaceDelete(t)
    \/ \E t \in Threads : RaceUnlock(t)
    \/ Tick
    \/ SweeperWake(TargetDB)
    \/ RaceSweeperLock(TargetDB)
    \/ RaceSweeperClean(TargetDB)

SpecRace == InitRace /\ [][NextRace]_vars

(* ========================= protocol claims ============================ *)
Holds(log, r) == \E i \in 1..Len(log) : log[i].sd = r

Count(log, r) == Cardinality({i \in 1..Len(log) : log[i].sd = r})

Records(log) == [i \in 1..Len(log) |-> log[i].sd]

Returned(c) == call[c].pc = "done"

Succeeded(c) == Returned(c) /\ call[c].result = NilError

AbortResults == {AbortFailedFormat, PrepareFailedFormat}

(* the call decided ABORT: it returned what abortAll returns *)
Aborted(c) == Returned(c) /\ call[c].result.format \in AbortResults

(* C1 as stated: at the step in which a call returns success, its record   *)
(* is in the log of both participants (every capacity here is >= 1 and no  *)
(* Delete runs).                                                           *)
C1_SuccessInBothLogs ==
    [][\A c \in Calls :
          (~Returned(c) /\ call'[c].pc = "done" /\ call'[c].result = NilError)
          => \A p \in DBs : Holds(data'[p], call'[c].sensorData)]_vars

(* C1, amended: a call that returned success had its record appended to    *)
(* the log of both participants, and the record is in the log of every     *)
(* participant to whose log fewer than maxDataPoints records were appended *)
(* after it (at the return and in every later state).                      *)
C1_SuccessAppendedToBoth ==
    \A c \in Calls : Succeeded(c) =>
        \A p \in DBs :
            /\ call[c].seqAt[p] > 0
            /\ appended[p] - call[c].seqAt[p] < maxDataPoints[p]
               => Holds(data[p], call[c].sensorData)

(* a call returned success although a participant has already dropped its  *)
(* record, and another call returned success with its record in both logs  *)
C1_Witness ==
    \E c, d \in Calls :
        /\ Succeeded(c) /\ Succeeded(d)
        /\ \E p \in DBs : ~Holds(data[p], call[c].sensorData)
        /\ \A p \in DBs : Holds(data[p], call[d].sensorData)

(* C2: a call that returned the failure of abortAll (some participant did  *)
(* not vote YES: refusal, transport error or deadline) has its record in   *)
(* neither log, in the state of the return and in every later state:       *)
(* neither as a value nor as an entry of its transaction.                  *)
C2_AbortedInNeitherLog ==
    \A c \in Calls : Aborted(c) =>
        \A p \in DBs :
            /\ ~Holds(data[p], call[c].sensorData)
            /\ \A i \in 1..Len(data[p]) : data[p][i].txn # GenerateTransactionID(c)

(* a call with a valid record was aborted after an RPC error, its Prepare  *)
(* reached a participant all the same (the entry is still prepared there), *)
(* and meanwhile the other call has stored its record                      *)
C2_Witness ==
    \E c, d \in Calls :
        /\ Aborted(c)
        /\ call[c].sensorData.SensorID # ""
        /\ call[c].result = AbortAllResult(0, "rpc error")
        /\ \E p \in DBs : GenerateTransactionID(c) \in DOMAIN preparedTxns[p]
        /\ Succeeded(d)
        /\ \A p \in DBs : Holds(data[p], call[d].sensorData)

(* C3 as the README states it: once a call has returned, both logs hold    *)
(* its record or neither does (stated for runs in which no log has dropped *)
(* a record yet, so that FIFO eviction plays no part).                     *)
C3_BothOrNeither ==
    \A c \in Calls :
        (Returned(c) /\ \A p \in DBs : appended[p] <= maxDataPoints[p])
        => \A p, q \in DBs :
              Holds(data[p], call[c].sensorData) <=> Holds(data[q], call[c].sensorData)

(* C4: when the calls ran one after the other, each returned success (so   *)
(* no RPC failed) and the capacities are equal, or nothing was dropped     *)
(* yet, the two logs are the same sequence of records.                     *)
C4_SequentialSameLogs ==
    (/\ ~overlapped
     /\ \A c \in Calls : call[c].pc = "idle" \/ Succeeded(c)
     /\ \/ \A p, q \in DBs : maxDataPoints[p] = maxDataPoints[q]
        \/ \A p \in DBs : appended[p] <= maxDataPoints[p])
    => \A p, q \in DBs : Records(data[p]) = Records(data[q])

(* two calls in a row, both successful, on replicas of capacity 1: the     *)
(* second commit dropped the first record on both                          *)
C4_Witness ==
    /\ ~overlapped
    /\ \A c \in Calls : Succeeded(c)
    /\ \A p \in DBs : maxDataPoints[p] = 1 /\ appended[p] = 2 /\ Len(data[p]) = 1

(* C5 as stated: when all K concurrent calls have returned and K is within *)
(* every capacity, each log holds exactly one record of each call that     *)
(* returned success and none of a call that returned failure.              *)
C5_OnePerSuccess ==
    (/\ \A c \in Calls : Returned(c)
     /\ \A p \in DBs : Cardinality(Calls) <= maxDataPoints[p])
    => \A c \in Calls : \A p \in DBs :
          Count(data[p], call[c].sensorData) = IF Succeeded(c) THEN 1 ELSE 0

(* ====================== participant-level claims ====================== *)
WellFormed(req) ==
    /\ req.TransactionId # ""
    /\ req.SensorData # NilSensorData
    /\ req.SensorData.SensorId # ""

(* C6: a well-formed Prepare for a txid that is already in the prepared   *)
(* set of that participant is refused with "Transaction already prepared",*)
(* leaves the prepared set (the first entry's record and PreparedAt) as it *)
(* was and does not touch the log.  (One entry per txid is the map's own   *)
(* property.)                                                              *)
C6_DuplicatePrepareRefused ==
    [][\A req \in ExpiryPrepares :
          (/\ reply'.op = "Prepare"
           /\ reply'.key = req.TransactionId
           /\ req.TransactionId \in DOMAIN preparedTxns[reply'.db]
           /\ WellFormed(req)
           /\ RpcPrepareReq(reply'.db, req))
          => /\ reply'.resp.Success = FALSE
             /\ reply'.resp.Message = "Transaction already prepared"
             /\ preparedTxns' = preparedTxns
             /\ data' = data]_vars

(* a refused duplicate whose first entry is older than the duplicate and  *)
(* holds another record than the sensors the duplicate could carry        *)
C6_Witness ==
    /\ reply.op = "Prepare"
    /\ reply.resp.Message = "Transaction already prepared"
    /\ reply.key \in DOMAIN preparedTxns[reply.db]
    /\ preparedTxns[reply.db][reply.key].PreparedAt < now

(* C7: while the sweeper of a participant runs, a prepared entry is never  *)
(* older than TxnTimeout + CleanupInterval, and reaches that age only at   *)
(* the instant whose sweep is still to run: it is absent once the sweep of *)
(* instant PreparedAt + TxnTimeout + CleanupInterval has run.              *)
C7_PreparedBounded ==
    \A p \in DBs : \A id \in DOMAIN preparedTxns[p] :
        (sweeper[p] = "running" /\ ~stopCleanup[p])
        => LET age == now - preparedTxns[p][id].PreparedAt
           IN \/ age < TxnTimeout + CleanupInterval
              \/ age = TxnTimeout + CleanupInterval /\ ticks[p] = 1

(* an entry nobody committed or aborted was removed by the sweeper *)
C7_Witness ==
    \E p \in DBs :
        /\ expired[p] # {}
        /\ sweeper[p] = "running" /\ ~stopCleanup[p]
        /\ \E id \in DOMAIN preparedTxns[p] : now - preparedTxns[p][id].PreparedAt = TxnTimeout

(* C8: the log of a participant never holds more than maxDataPoints       *)
(* entries, whatever Create and Commit operations ran.                     *)
C8_LogBounded == \A p \in DBs : Len(data[p]) <= maxDataPoints[p]

(* more appends than the capacity, so the oldest entries were dropped *)
C8_Witness ==
    \E p \in DBs :
        /\ maxDataPoints[p] > 0
        /\ appended[p] > maxDataPoints[p]
        /\ Len(data[p]) = maxDataPoints[p]
        /\ \E i \in 1..Len(data[p]) : data[p][i].txn # ""

(* C9: the entries of a log stand in the order in which they were applied  *)
(* (seq numbers the applications of addDataPointInternal at the service):  *)
(* a later commit is never placed before an earlier one and no operation  *)
(* reorders entries.                                                       *)
C9_CommitOrder ==
    \A p \in DBs : \A i, j \in 1..Len(data[p]) :
        i < j => data[p][i].seq < data[p][j].seq

(* two committed records of different transactions side by side *)
C9_Witness ==
    \E p \in DBs :
        /\ Len(data[p]) >= 2
        /\ data[p][1].txn # "" /\ data[p][2].txn # ""
        /\ data[p][1].txn # data[p][2].txn

(* ========================= lock-level claim =========================== *)
(* a goroutine holds one mutex and waits for the other while the holder of *)
(* that one waits for the first                                            *)
LockCycle ==
    \E t, u \in Threads :
        /\ thread[t].pc = "run" /\ thread[u].pc = "run"
        /\ txnMutex = t /\ Wanted(thread[t]) = "mu"
        /\ mu.writer = u /\ Wanted(thread[u]) = "txnMutex"

(* C10: under fair scheduling every Prepare, Commit and Abort request that *)
(* a goroutine has started to serve returns, whatever other requests       *)
(* (duplicates of the txid, reads, Create, Update, Delete) and the cleanup *)
(* goroutine do meanwhile, and no state is a deadlock on mu and txnMutex.  *)
C10_RequestsTerminate ==
    /\ [](~LockCycle)
    /\ \A t \in Threads :
          (thread[t].pc = "run" /\ thread[t].op \in {"Prepare", "Commit", "Abort"})
          ~> (thread[t].pc = "done")

(* CommitTransaction holds txnMutex and waits for mu, which a Delete       *)
(* holds, while the cleanup goroutine waits for txnMutex                   *)
C10_Witness ==
    \E t, u \in Threads :
        /\ thread[t].op = "Commit" /\ thread[t].pc = "run"
        /\ txnMutex = t /\ Wanted(thread[t]) = "mu"
        /\ thread[u].op = "Delete" /\ mu.writer = u
        /\ sweeper[TargetDB] = "locking"

(* goroutine t holds mu, as writer or as reader *)
HoldsMu(t) == mu.writer = t \/ t \in mu.readers

C12_PrepareSentToAll ==
    \A c \in Calls :
        call[c].pc \in {"commit", "abort", "done"} => call[c].prepSent = DBs

(* the Prepare at the first database failed and the one at the last        *)
(* database was still sent and stored; the activation is aborting          *)
C12_Witness ==
    \E c \in Calls :
        /\ call[c].pc = "abort"
        /\ call[c].prepareErrors[FirstDB]
        /\ call[c].prepSent = DBs
        /\ GenerateTransactionID(c) \in DOMAIN preparedTxns[LastDB]

(* C13: an activation is in its commit phase exactly when every Prepare    *)
(* outcome it recorded is a YES, and in its abort phase otherwise; it      *)
(* sends one kind of decision only, never Commit to one database and Abort *)
(* to another, and when it returns it has sent that decision to every      *)
(* database, also after a Commit or Abort call that failed.                *)
C13_OneDecisionForAll ==
    \A c \in Calls :
        /\ call[c].pc = "commit" => \A p \in DBs : ~NotYes(call[c], p)
        /\ call[c].pc = "abort" => \E p \in DBs : NotYes(call[c], p)
        /\ ~\E p, q \in DBs : <<"commit", p>> \in call[c].decSent
                              /\ <<"abort", q>> \in call[c].decSent
        /\ Returned(c) =>
              \E d \in {"commit", "abort"} : call[c].decSent = {<<d, p>> : p \in DBs}
        /\ Succeeded(c) => call[c].decSent = {<<"commit", p>> : p \in DBs}
        /\ Aborted(c) => call[c].decSent = {<<"abort", p>> : p \in DBs}

(* the Commit at the first database failed (its record is not there) and   *)
(* the Commit was still sent to the last one, which stored the record      *)
C13_Witness ==
    \E c \in Calls :
        /\ Returned(c)
        /\ call[c].decSent = {<<"commit", p>> : p \in DBs}
        /\ ~Holds(data[FirstDB], call[c].sensorData)
        /\ Holds(data[LastDB], call[c].sensorData)
        /\ appended[FirstDB] = 0

(* the decision sent by a returned call *)
Decided(c, d) == Returned(c) /\ call[c].decSent = {<<d, p>> : p \in DBs}

(* the databases whose Commit / Abort ended with an error at the caller *)
FailedAt(c) == {p \in DBs : call[c].decErr[p] # ""}

LastFailed(c) == CHOOSE p \in FailedAt(c) : \A q \in FailedAt(c) : q <= p

C15_AbortReasonIsPrepare ==
    \A c \in Calls : Decided(c, "abort") =>
        /\ call[c].result # NilError
        /\ call[c].result.format = PrepareFailedFormat

(* the services as the handlers see them *)
Services == [p \in DBs |-> Svc(p)]

(* C16: once a call has returned success for record r, GetDataPointBySensorId *)
(* of the coordinator for r's sensor id, run in any later state with the   *)
(* databases reachable, returns without error a list that contains r, as   *)
(* long as fewer than maxDataPoints records were appended to the log of    *)
(* the first database after r (Spec has no Update and no Delete).  The     *)
(* read changes nothing and its handler runs under the read lock of the    *)
(* log, so its answer is a function of the state it is run in.             *)
C16_ReadAfterWrite ==
    \A c \in Calls :
        (Succeeded(c)
         /\ appended[FirstDB] - call[c].seqAt[FirstDB] < maxDataPoints[FirstDB])
        => LET r == call[c].sensorData
               got == GetDataPointBySensorId(Services, r.SensorID, DBs)
           IN got.err = "" /\ r \in Range(got.data)

(* a call has returned success, the last database has dropped its record   *)
(* since, and the read still returns the record from the first database,   *)
(* while the other call is still running                                   *)
C16_Witness ==
    \E c, d \in Calls :
        /\ Succeeded(c) /\ Busy(d)
        /\ ~Holds(data[LastDB], call[c].sensorData)
        /\ GetDataPointBySensorId(Services, call[c].sensorData.SensorID, DBs).data
              = <<call[c].sensorData>>

(* C17: at a participant whose sweeper runs, a Commit succeeds only for an *)
(* entry prepared at most TxnTimeout + CleanupInterval ago (that age only  *)
(* while the sweep of that instant is still to run).  Every other Commit,  *)
(* so every Commit that arrives later than TxnTimeout + CleanupInterval    *)
(* after the Prepare with no Commit or Abort in between, is answered       *)
(* non-success "not found or not prepared" and leaves the log and the      *)
(* prepared set as they were; and the sweep that removes the entry stores  *)
(* nothing in the log.                                                     *)
C17_LateCommitRefused ==
    [][/\ \A req \in ExpiryDecisions :
            LET p == TargetDB
                id == req.TransactionId
                inTime == /\ id \in DOMAIN preparedTxns[p]
                          /\ LET age == now - preparedTxns[p][id].PreparedAt
                             IN \/ age < TxnTimeout + CleanupInterval
                                \/ age = TxnTimeout + CleanupInterval /\ ticks[p] = 1
            IN (/\ RpcCommit(p, {req})
                /\ sweeper[p] = "running" /\ ~stopCleanup[p]
                /\ ~inTime)
               => /\ reply'.resp = OperationResponse(FALSE, NotFoundMessage(id))
                  /\ data' = data
                  /\ preparedTxns' = preparedTxns
       /\ \A p \in DBs : SweeperTick(p) => data' = data]_vars

(* a transaction was prepared at instant 0 and left alone, the sweep of    *)
(* instant TxnTimeout + CleanupInterval has removed it, and the Commit     *)
(* that came after it was refused: no entry of the log is of that          *)
(* transaction                                                             *)
C17_Witness ==
    /\ reply.op = "Commit"
    /\ reply.resp = OperationResponse(FALSE, NotFoundMessage(reply.key))
    /\ reply.key \in expired[reply.db]
    /\ reply.key \notin DOMAIN preparedTxns[reply.db]
    /\ now = TxnTimeout + CleanupInterval /\ ticks[reply.db] = 0
    /\ sweeper[reply.db] = "running" /\ ~stopCleanup[reply.db]
    /\ appended[reply.db] = 0

Crashed(c) == call[c].pc = "crashed"

(* C18: once the coordinator has died in the prepare loop of a call, every *)
(* prepared entry of that call's transaction is removed (nobody but the    *)
(* sweeper can remove it) and stays away, at each participant; and no log  *)
(* ever holds an entry of that transaction.                                *)
C18_OrphansSwept ==
    \A c \in Calls :
        /\ \A p \in DBs :
              Crashed(c) ~> [](GenerateTransactionID(c) \notin DOMAIN preparedTxns[p])
        /\ [](Crashed(c) =>
                 /\ call[c].decSent = {}
                 /\ \A p \in DBs : \A i \in 1..Len(data[p]) :
                        data[p][i].txn # GenerateTransactionID(c))

(* the coordinator died after both participants had prepared; the sweeper  *)
(* of each has removed the entry, and the log of each holds the record of  *)
(* the other call                                                          *)
C18_Witness ==
    \E c, d \in Calls :
        /\ Crashed(c) /\ Succeeded(d)
        /\ \A p \in DBs :
              /\ GenerateTransactionID(c) \in expired[p]
              /\ GenerateTransactionID(c) \notin DOMAIN preparedTxns[p]
              /\ Holds(data[p], call[d].sensorData)

(* the entries of a log that a step keeps, by their insertion number *)
Kept(log, log2) == {i \in 1..Len(log) : \E j \in 1..Len(log2) : log2[j].seq = log[i].seq}

After(log2, e) == log2[CHOOSE j \in 1..Len(log2) : log2[j].seq = e.seq]

(* the entry at i is unchanged by the step, or it left by the FIFO cut of  *)
(* an append to a full log, as the oldest entry                            *)
FrameOrFifo(p, i) ==
    IF i \in Kept(data[p], data'[p])
    THEN After(data'[p], data[p][i]).sd = data[p][i].sd
    ELSE /\ appended'[p] = appended[p] + 1
         /\ Len(data[p]) = maxDataPoints[p]
         /\ i = 1

(* C19 as stated: whatever RPC the participant serves, an entry of its log *)
(* keeps its sensor id, timestamp, value and unit, and leaves the log only *)
(* as the oldest entry when an append exceeds the capacity.                *)
C19_EntriesImmutable ==
    [][\A i \in 1..Len(data[TargetDB]) : FrameOrFifo(TargetDB, i)]_vars

(* C19, amended: that holds for Create, Prepare, Commit, Abort and the     *)
(* two reads.                                                              *)
(* UpdateSensorData changes the value and unit, nothing else, of the first *)
(* entry with the request's sensor id and timestamp and removes nothing;   *)
(* DeleteSensorData removes exactly the entries of the request's sensor id *)
(* and changes no other.                                                   *)
C19_MutatedOnlyByUpdateDelete ==
    [][LET p == TargetDB
           log == data[p]
           log2 == data'[p]
       IN CASE reply'.op = "Update" ->
                 /\ Kept(log, log2) = 1..Len(log) /\ Len(log2) = Len(log)
                 /\ \A i \in 1..Len(log) :
                       /\ log2[i].seq = log[i].seq
                       /\ log2[i].sd.SensorID = log[i].sd.SensorID
                       /\ log2[i].sd.Timestamp = log[i].sd.Timestamp
                       /\ log2[i].sd # log[i].sd
                          => /\ log[i].sd.SensorID = reply'.key
                             /\ \A j \in 1..(i - 1) :
                                   ~(/\ log[j].sd.SensorID = log[i].sd.SensorID
                                     /\ log[j].sd.Timestamp = log[i].sd.Timestamp)
            [] reply'.op = "Delete" ->
                 /\ Kept(log, log2) =
                       {i \in 1..Len(log) : log[i].sd.SensorID # reply'.key \/ reply'.key = ""}
                 /\ \A i \in Kept(log, log2) : After(log2, log[i]).sd = log[i].sd
            [] OTHER -> \A i \in 1..Len(log) : FrameOrFifo(p, i)]_vars

(* an Update has changed the first of two entries with the same sensor id  *)
(* and timestamp and left the second as it was                             *)
C19_Witness ==
    /\ reply.op = "Update" /\ reply.resp.Success
    /\ Len(data[TargetDB]) = 2
    /\ data[TargetDB][1].sd.SensorID = data[TargetDB][2].sd.SensorID
    /\ data[TargetDB][1].sd.Timestamp = data[TargetDB][2].sd.Timestamp
    /\ data[TargetDB][1].sd.Value = 20
    /\ data[TargetDB][2].sd.Value = 10

(* C20: a read of the coordinator sends its request to the first database  *)
(* and to no other; with the first database unreachable it returns an      *)
(* error and no data, whether or not the last one is reachable, and        *)
(* otherwise it returns the records of the first database's log (all of    *)
(* them, or those of the sensor asked for), whatever the last one holds.   *)
C20_ReadsFromFirstOnly ==
    reply.op \in {"GetAllDataPoints", "GetDataPointBySensorId"} =>
        /\ reply.result.contacted = {FirstDB}
        /\ FirstDB \notin reply.reachable
           => reply.result.err # "" /\ reply.result.data = <<>>
        /\ FirstDB \in reply.reachable
           => /\ reply.result.err = ""
              /\ reply.result.data =
                    IF reply.op = "GetAllDataPoints"
                    THEN Records(data[FirstDB])
                    ELSE Records(SelectIdx(data[FirstDB],
                            {i \in 1..Len(data[FirstDB]) :
                                /\ reply.key # ""
                                /\ data[FirstDB][i].sd.SensorID = reply.key}))

(* the first database was unreachable and the last one reachable and       *)
(* holding a record of the sensor asked for: the read returned the error   *)
C20_Witness ==
    /\ reply.op = "GetDataPointBySensorId"
    /\ reply.reachable = {LastDB}
    /\ reply.result.err # ""
    /\ \E i \in 1..Len(data[LastDB]) : data[LastDB][i].sd.SensorID = reply.key
    /\ data[FirstDB] = <<>>

(* C21: a construction with fewer than two addresses fails and opens no    *)
(* connection; a construction fails exactly when that or some address      *)
(* cannot be connected, it then returns no client, has opened connections  *)
(* only for the addresses before the first failing one, and has closed     *)
(* every connection it opened; a construction that succeeds holds one open *)
(* connection per address.                                                 *)
C21_AllOrNoConnections ==
    reply.op = "TwoPhaseCommitClientFactory" =>
        LET addrs == reply.serverAddresses
            r == reply.result
            failing == {i \in 1..Len(addrs) : addrs[i] \in reply.bad}
        IN /\ Len(addrs) < 2 => r.err # "" /\ r.opened = {}
           /\ r.err # "" <=> (Len(addrs) < 2 \/ failing # {})
           /\ r.err # "" => /\ r.clients = <<>>
                             /\ r.opened \ r.closed = {}
                             /\ \A i \in r.opened : \A j \in failing : i < j
           /\ r.err = "" => /\ r.clients = [i \in 1..Len(addrs) |-> i]
                            /\ r.opened = 1..Len(addrs)
                            /\ r.closed = {}

(* the third address could not be connected: the two connections opened    *)
(* before it were closed                                                   *)
C21_Witness ==
    /\ reply.op = "TwoPhaseCommitClientFactory"
    /\ reply.result.err # ""
    /\ reply.result.opened = {1, 2}
    /\ reply.result.closed = {1, 2}

(* C22: once the shutdown of a database server has begun (GracefulStop     *)
(* called or returned), the stop channel of its sweeper is closed and the  *)
(* sweeper goroutine has returned.                                         *)
C22_SweeperJoinedBeforeShutdown ==
    \A p \in DBs : grpcServer[p] \in {"draining", "stopped"} =>
        stopCleanup[p] /\ sweeper[p] = "exited"

(* the records of the prepared entries of p that its log does not hold *)
PendingRecords(p) ==
    {preparedTxns[p][id].SensorData : id \in DOMAIN preparedTxns[p]}
        \ {data[p][i].sd : i \in 1..Len(data[p])}

(* C23: a Prepare, whatever its vote, leaves the log as it was; and a read *)
(* (GetAllSensorData, GetSensorDataBySensorId) returns no record that is   *)
(* only in the prepared set.                                               *)
C23_PrepareKeepsLog ==
    [][LET p == TargetDB
       IN /\ reply'.op = "Prepare" => data'[p] = data[p] /\ appended'[p] = appended[p]
          /\ reply'.op \in {"GetAll", "GetBySensorId"} =>
                \A r \in PendingRecords(p) :
                    SensorDataToProto(r) \notin Range(reply'.resp.Data)]_vars

(* a read returned the one record of the log while a record of another     *)
(* sensor was prepared                                                     *)
C23_Witness ==
    /\ reply.op = "GetAll" /\ Len(reply.resp.Data) = 1
    /\ Len(data[TargetDB]) = 1
    /\ \E r \in PendingRecords(TargetDB) : r.SensorID # data[TargetDB][1].sd.SensorID

(* C24: a Prepare whose transaction id is empty, whose record is nil or    *)
(* whose record has an empty sensor id is answered with a response (not    *)
(* nil) that has Success false and names what is missing, and changes      *)
(* neither the prepared set nor the log.                                   *)
C24_InvalidPrepareRefused ==
    \A req \in {r \in TransactionRequests(now) : ~WellFormed(r)} :
        LET r == PrepareTransaction(Svc(TargetDB), req, now)
        IN /\ r.resp # NilResponse
           /\ r.resp.Success = FALSE
           /\ r.resp.Message =
                 IF req.TransactionId = "" THEN "Missing transaction ID"
                 ELSE IF req.SensorData = NilSensorData THEN "Missing sensor data"
                 ELSE "Missing sensor ID in sensor data"
           /\ r.s.preparedTxns = preparedTxns[TargetDB]
           /\ r.s.data = data[TargetDB]

C24_Witness ==
    /\ reply.op = "Prepare" /\ reply.key # ""
    /\ reply.resp = PrepareResponse(FALSE, "Missing sensor ID in sensor data", "")
    /\ reply.key \notin DOMAIN preparedTxns[TargetDB]
    /\ preparedTxns[TargetDB] # EmptyMap
    /\ data[TargetDB] # <<>>

(* C25: a Commit or an Abort whose transaction id is empty or is not in    *)
(* the prepared set (never prepared, committed, aborted or expired) is     *)
(* answered with Success false and changes neither the prepared set nor    *)
(* the log.                                                                *)
C25_UnknownDecisionRefused ==
    \A req \in TransactionIdRequests :
        req.TransactionId \notin DOMAIN preparedTxns[TargetDB]
        => \A r \in {CommitTransaction(Svc(TargetDB), req),
                     AbortTransaction(Svc(TargetDB), req)} :
              /\ r.resp # NilResponse
              /\ r.resp.Success = FALSE
              /\ r.resp.Message =
                    IF req.TransactionId = "" THEN "Missing transaction ID"
                    ELSE NotFoundMessage(req.TransactionId)
              /\ r.s.preparedTxns = preparedTxns[TargetDB]
              /\ r.s.data = data[TargetDB]

C25_Witness ==
    /\ reply.op \in {"Commit", "Abort"}
    /\ reply.resp = OperationResponse(FALSE, NotFoundMessage(reply.key))
    /\ reply.key \in expired[TargetDB]
    /\ reply.key \notin DOMAIN preparedTxns[TargetDB]
    /\ preparedTxns[TargetDB] # EmptyMap
    /\ data[TargetDB] # <<>>

(* the applications (seq) that put a record of transaction id in the log   *)
LogOf(log, id) == {log[i].seq : i \in {j \in 1..Len(log) : log[j].txn = id}}

(* C26: an Abort of a prepared txid answers Success, removes that txid's   *)
(* entry and no other from the prepared set and leaves the log as it was;  *)
(* and while a txid is not in the prepared set (so from its Abort until it *)
(* is prepared again) no step puts a record of that txid in the log.       *)
C26_AbortDiscards ==
    [][/\ \A req \in TransactionIdRequests :
             (/\ reply'.op = "Abort"
              /\ reply'.key = req.TransactionId
              /\ req.TransactionId \in DOMAIN preparedTxns[TargetDB]
              /\ RpcAbort(TargetDB, {req}))
             => /\ reply'.resp = OperationResponse(TRUE, "Transaction aborted successfully")
                /\ DOMAIN preparedTxns'[TargetDB] =
                      DOMAIN preparedTxns[TargetDB] \ {req.TransactionId}
                /\ \A id \in DOMAIN preparedTxns'[TargetDB] :
                      preparedTxns'[TargetDB][id] = preparedTxns[TargetDB][id]
                /\ data' = data
       /\ \A id \in TxnIds :
             id \notin DOMAIN preparedTxns[TargetDB]
             => LogOf(data'[TargetDB], id) \subseteq LogOf(data[TargetDB], id)]_vars

(* an Abort took one of two prepared entries; the other one is still there *)
(* and the log holds a committed record                                    *)
C26_Witness ==
    /\ reply.op = "Abort"
    /\ reply.resp.Success
    /\ reply.key \notin DOMAIN preparedTxns[TargetDB]
    /\ preparedTxns[TargetDB] # EmptyMap
    /\ \E i \in 1..Len(data[TargetDB]) : data[TargetDB][i].txn # ""
    /\ LogOf(data[TargetDB], reply.key) = {}

(* the service s holds nothing about txid id: a decision for it is refused *)
(* as "not prepared" and any well-formed Prepare for it at time t is       *)
(* accepted with the answer and the entry a new service would give        *)
Forgotten(s, id, t) ==
    /\ CommitTransaction(s, [TransactionId |-> id]).resp
          = OperationResponse(FALSE, NotFoundMessage(id))
    /\ AbortTransaction(s, [TransactionId |-> id]).resp
          = OperationResponse(FALSE, NotFoundMessage(id))
    /\ \A req \in {r \in ExpiryPrepares : r.TransactionId = id} :
          LET r == PrepareTransaction(s, req, t)
              fresh == PrepareTransaction(DatabaseServiceFactory(s.maxDataPoints), req, t)
          IN /\ r.resp.Success
             /\ r.resp = fresh.resp
             /\ DOMAIN r.s.preparedTxns = DOMAIN s.preparedTxns \cup {id}
             /\ r.s.preparedTxns[id] = fresh.s.preparedTxns[id]
             /\ \A other \in DOMAIN s.preparedTxns :
                   other # id => r.s.preparedTxns[other] = s.preparedTxns[other]
             /\ r.s.data = s.data

(* the step commits, aborts or sweeps the prepared entry of txid id *)
Ends(p, id) ==
    /\ id \in DOMAIN preparedTxns[p]
    /\ \/ /\ reply'.op = "Commit" /\ reply'.key = id
          /\ RpcCommit(p, {[TransactionId |-> id]})
       \/ /\ reply'.op = "Abort" /\ reply'.key = id
          /\ RpcAbort(p, {[TransactionId |-> id]})
       \/ /\ now - preparedTxns[p][id].PreparedAt > TxnTimeout
          /\ ticks'[p] < ticks[p]
          /\ SweeperTick(p)

(* C27: a step that commits, aborts or sweeps a prepared txid takes it out *)
(* of the prepared set, which is all the participant keeps about a txid;   *)
(* and for as long as a txid is not in that set, a Commit or an Abort for  *)
(* it is answered "not prepared" and a Prepare with it is accepted like    *)
(* the Prepare of a txid never seen.                                       *)
C27_TerminalForgotten ==
    /\ [][\A id \in TxnIds :
             Ends(TargetDB, id) => id \notin DOMAIN preparedTxns'[TargetDB]]_vars
    /\ [](\A id \in TxnIds :
             id \notin DOMAIN preparedTxns[TargetDB]
             => Forgotten(Svc(TargetDB), id, now))

(* a txid that was swept once and committed later is prepared once more    *)
C27_Witness ==
    /\ reply.op = "Prepare"
    /\ reply.resp.Success
    /\ reply.key \in expired[TargetDB]
    /\ LogOf(data[TargetDB], reply.key) # {}
    /\ reply.key \in DOMAIN preparedTxns[TargetDB]
    /\ preparedTxns[TargetDB][reply.key].PreparedAt = now

(* call c returns in this step, and each of its Prepare, Commit and Abort *)
(* RPCs came back with a response                                          *)
ReturnsAnswered(c) ==
    /\ call[c].pc \in {"commit", "abort"}
    /\ call'[c].pc = "done"
    /\ \A p \in DBs : ~call[c].prepareErrors[p]
    /\ \A p \in DBs : call'[c].decErr[p] # RpcError

(* call c has returned, none of its requests is still under way and no    *)
(* participant has a prepared entry under its transaction id               *)
Settled(c) ==
    /\ call[c].pc = "done"
    /\ \A m \in late : m.txn # GenerateTransactionID(c)
    /\ \A p \in DBs : GenerateTransactionID(c) \notin DOMAIN preparedTxns[p]

(* C28: when AddDataPointWithTwoPhaseCommit returns (success or error)     *)
(* with each of its Prepare, Commit and Abort RPCs answered, no            *)
(* participant has a prepared entry under the transaction id of that call  *)
(* and no request of the call is under way; and from then on no step       *)
(* brings such an entry back.                                              *)
C28_NoEntryLeftBehind ==
    [][\A c \in Calls :
          /\ ReturnsAnswered(c) => Settled(c)'
          /\ Settled(c) => Settled(c)']_vars

(* one call committed at both databases and another call was refused and   *)
(* aborted at both, each with every RPC answered                           *)
C28_Witness ==
    \E c, d \in Calls :
        /\ Settled(c) /\ Settled(d)
        /\ late = {}
        /\ call[c].result = NilError
        /\ \A p \in DBs : call[c].seqAt[p] > 0 /\ call[c].decErr[p] = ""
        /\ call[d].sensorData.SensorID = ""
        /\ call[d].decSent = {<<"abort", p>> : p \in DBs}
        /\ \A p \in DBs : call[d].decErr[p] = NotFoundMessage(GenerateTransactionID(d))

(* the records of transaction id appended after the first n appends *)
NewLogOf(id, n) == {q \in LogOf(data[TargetDB], id) : q > n}

NotPrepared(id) == OperationResponse(FALSE, NotFoundMessage(id))

(* goroutines t and u have served a Commit and a Commit or an Abort for    *)
(* the same txid, each of which arrived while the txid was prepared        *)
Raced(t, u) ==
    /\ t # u
    /\ Finished(t) /\ Finished(u)
    /\ thread[t].op = "Commit" /\ thread[u].op \in {"Commit", "Abort"}
    /\ thread[t].req.TransactionId = thread[u].req.TransactionId
    /\ thread[t].at # NoEntry /\ thread[u].at # NoEntry

(* C29: of two concurrent Commit requests, or a concurrent Commit and      *)
(* Abort, for one prepared txid that the sweeper has not taken, exactly    *)
(* one is answered with success and the other with "not prepared"; the     *)
(* record is in the log once if a Commit won and not at all if the Abort   *)
(* won.                                                                    *)
C29_DecisionsLinearised ==
    \A t, u \in Threads :
        (Raced(t, u) /\ thread[t].req.TransactionId \notin expired[TargetDB])
        => LET id == thread[t].req.TransactionId
               won == {x \in {t, u} : thread[x].resp.Success}
               seq0 == IF thread[t].seq0 < thread[u].seq0
                       THEN thread[t].seq0 ELSE thread[u].seq0
           IN /\ Cardinality(won) = 1
              /\ \A x \in {t, u} \ won : thread[x].resp = NotPrepared(id)
              /\ Cardinality(NewLogOf(id, seq0)) =
                    IF \E x \in won : thread[x].op = "Commit" THEN 1 ELSE 0

(* a Commit that lost against an Abort, and the log without the record *)
C29_Witness ==
    \E t, u \in Threads :
        /\ Raced(t, u)
        /\ thread[u].op = "Abort" /\ thread[u].resp.Success
        /\ thread[t].resp = NotPrepared(thread[t].req.TransactionId)
        /\ thread[t].req.TransactionId \notin expired[TargetDB]
        /\ data[TargetDB] = <<>>

(* goroutine t has served a Commit that arrived while its txid was         *)
(* prepared, and no other request was under way or arrived meanwhile       *)
CommittedAlone(t) ==
    /\ Finished(t)
    /\ thread[t].op = "Commit"
    /\ thread[t].at # NoEntry
    /\ \A u \in Threads \ {t} : thread[u].op = ""

(* C30: a Commit for a prepared txid that meets the sweeper either is      *)
(* answered with success, and then its record is in the log exactly once   *)
(* and the sweeper has not removed the entry, or is answered "not          *)
(* prepared", and then the sweeper has removed the entry and the record is *)
(* not in the log.                                                         *)
C30_CommitOrSweeper ==
    \A t \in Threads :
        CommittedAlone(t)
        => LET id == thread[t].req.TransactionId
               new == NewLogOf(id, thread[t].seq0)
           IN \/ /\ thread[t].resp = OperationResponse(TRUE, "Transaction committed successfully")
                 /\ Cardinality(new) = 1
                 /\ id \notin expired[TargetDB]
                 /\ id \notin DOMAIN preparedTxns[TargetDB]
              \/ /\ thread[t].resp = NotPrepared(id)
                 /\ new = {}
                 /\ id \in expired[TargetDB]
                 /\ id \notin DOMAIN preparedTxns[TargetDB]

(* the Commit took an entry older than the timeout while the cleanup       *)
(* goroutine was waiting for txnMutex                                      *)
C30_Witness ==
    \E t \in Threads :
        /\ CommittedAlone(t)
        /\ thread[t].resp.Success
        /\ thread[t].pc = "unlock" /\ txnMutex = t
        /\ sweeper[TargetDB] = "locking"
        /\ now - thread[t].at > TxnTimeout
        /\ Cardinality(NewLogOf(thread[t].req.TransactionId, thread[t].seq0)) = 1

(* the log entry of participant p that application number q stored *)
EntryOf(p, q) == data[p][CHOOSE i \in 1..Len(data[p]) : data[p][i].seq = q]

(* C31: the coordinator sends Prepare, Commit and Abort only; with no      *)
(* Create, every log entry of a participant carries the record of a call   *)
(* whose Prepare was sent to that participant, equal to it in SensorID,    *)
(* Timestamp, Value and Unit, and a step puts a record in a log only by    *)
(* taking it from the prepared entry of its txid at that participant.      *)
C31_LogOnlyFromPrepared ==
    /\ [](/\ \A c \in Calls : call[c].pc \in {"idle", "prepare", "commit", "abort", "done"}
          /\ \A m \in late : m.op \in {"prepare", "commit", "abort"}
          /\ \A p \in DBs : \A i \in 1..Len(data[p]) :
                \E c \in Calls :
                    /\ data[p][i].txn = GenerateTransactionID(c)
                    /\ data[p][i].sd = call[c].sensorData
                    /\ p \in call[c].prepSent)
    /\ [][\A p \in DBs : \A id \in TxnIds :
             \A q \in LogOf(data'[p], id) \ LogOf(data[p], id) :
                /\ id \in DOMAIN preparedTxns[p]
                /\ EntryOf(p, q)'.sd = preparedTxns[p][id].SensorData]_vars

(* both logs hold the records of both calls, and nothing is left prepared *)
C31_Witness ==
    \A p \in DBs :
        /\ Len(data[p]) = 2
        /\ preparedTxns[p] = EmptyMap
        /\ \A c \in Calls : \E i \in 1..2 : data[p][i].sd = call[c].sensorData


(* ==================== lock separation claim =========================== *)
(* goroutine t is blocked in Lock()/RLock() of mutex m *)
BlockedOn(t, m) ==
    /\ thread[t].pc = "run"
    /\ Wanted(thread[t]) = m
    /\ ~Free(m)

(* the holder of txnMutex is itself blocked on mu *)
TxnHolderWaitsForLog == \E h \in Threads : txnMutex = h /\ BlockedOn(h, "mu")

(* the writer that holds mu is itself blocked on txnMutex *)
LogWriterWaitsForTxn == \E h \in Threads : mu.writer = h /\ BlockedOn(h, "txnMutex")

(* a Prepare, an Abort or a sweep waits for txnMutex *)
PreparedOpWaits ==
    \/ \E t \in Threads : thread[t].op \in {"Prepare", "Abort"} /\ BlockedOn(t, "txnMutex")
    \/ sweeper[TargetDB] = "locking" /\ ~Free("txnMutex")

InLog(p, c) == \E i \in 1..Len(data[p]) : data[p][i].txn = GenerateTransactionID(c)

(* the place of the record of call c in the log of participant p *)
PosOf(p, c) == CHOOSE i \in 1..Len(data[p]) : data[p][i].txn = GenerateTransactionID(c)

(* C33: no order is coordinated across participants.  Of two successful    *)
(* calls each participant places the records in the order in which it      *)
(* served the two Commits itself (seqAt), whatever the other participant   *)
(* did; C33_Witness is the reachable state in which the two logs hold both *)
(* records in opposite orders.                                             *)
C33_OrderIsLocal ==
    \A c, d \in Calls :
        (c # d /\ Succeeded(c) /\ Succeeded(d))
        => \A p \in DBs :
              (InLog(p, c) /\ InLog(p, d))
              => (PosOf(p, c) < PosOf(p, d) <=> call[c].seqAt[p] < call[d].seqAt[p])

(* two concurrent calls returned success, both records are in both logs,   *)
(* and the first participant holds them in the opposite order of the last  *)
C33_Witness ==
    /\ overlapped
    /\ Succeeded(1) /\ Succeeded(2)
    /\ \A p \in DBs : InLog(p, 1) /\ InLog(p, 2)
    /\ PosOf(FirstDB, 1) < PosOf(FirstDB, 2)
    /\ PosOf(LastDB, 2) < PosOf(LastDB, 1)


(* ===================== append with FIFO eviction ====================== *)
(* the transaction id of the Commit path of an append run *)
RunTxnId == "txn_run"

(* one append: a Create, or a Prepare followed by the Commit of its entry *)
AppendSteps(t) ==
    {[op |-> op, req |-> [SensorId |-> id, Timestamp |-> t, Value |-> pl[1], Unit |-> pl[2]]] :
        op \in {"Create", "Commit"}, id \in SensorIds, pl \in NewPayloads}

(* the runs of one to k appends *)
AppendRuns(t, k) == UNION {[1..n -> AppendSteps(t)] : n \in 1..k}

(* the handlers of one append applied to s: state after, and whether every *)
(* answer was a success                                                    *)
ApplyStep(s, step, t) ==
    IF step.op = "Create"
    THEN LET r == CreateSensorData(s, step.req, t)
         IN [s |-> r.s, ok |-> r.resp.Success]
    ELSE LET r1 == PrepareTransaction(s, [TransactionId |-> RunTxnId,
                                          SensorData |-> step.req], t)
             r2 == CommitTransaction(r1.s, [TransactionId |-> RunTxnId])
         IN [s |-> r2.s, ok |-> r1.resp.Success /\ r2.resp.Success]

RECURSIVE ApplyRun(_, _, _)
ApplyRun(s, run, t) ==
    IF run = <<>> THEN [s |-> s, ok |-> TRUE]
    ELSE LET front == ApplyRun(s, SubSeq(run, 1, Len(run) - 1), t)
             last == ApplyStep(front.s, run[Len(run)], t)
         IN [s |-> last.s, ok |-> front.ok /\ last.ok]

(* the last n elements of seq, all of them when it has fewer *)
LastOf(seq, n) ==
    IF Len(seq) <= n THEN seq ELSE SubSeq(seq, Len(seq) - n + 1, Len(seq))

(* C34: whatever a log holds, after a run of appends (Create, or Commit of *)
(* a prepared entry) every append has succeeded and the log is, in order,  *)
(* the last maxDataPoints records of what it held followed by the records  *)
(* of the run: from an empty log, the last min(n, C) records appended.     *)
(* The runs continue the appends made so far up to MaxAppends + 1 appends. *)
C34_FifoAppend ==
    \A run \in AppendRuns(now, MaxAppends + 1 - appended[TargetDB]) :
        LET r == ApplyRun(Svc(TargetDB), run, now)
            recs == [i \in 1..Len(run) |-> ProtoToSensorData(run[i].req, now)]
        IN /\ r.ok
           /\ Records(r.s.data)
                 = LastOf(Records(data[TargetDB]) \o recs, maxDataPoints[TargetDB])
           /\ r.s.preparedTxns = preparedTxns[TargetDB]

(* a full log of capacity two, written by a Create and a Commit: the next  *)
(* append drops the entry of the Create                                    *)
C34_Witness ==
    /\ maxDataPoints[TargetDB] = 2
    /\ Len(data[TargetDB]) = 2
    /\ data[TargetDB][1].txn = "" /\ data[TargetDB][2].txn # ""
    /\ reply.op = "Commit" /\ reply.resp.Success


(* ============================ Delete ================================== *)
(* the entries of log that are not of sensor id, by their place in log *)
OthersOf(log, id) == {i \in 1..Len(log) : log[i].sd.SensorID # id}

(* C35: a Delete with a sensor id answers success, also when the log holds *)
(* no entry of that sensor; afterwards the log holds no entry of the       *)
(* sensor and all the other entries, unchanged and in the order they had.  *)
(* A Delete without a sensor id answers non-success and changes nothing.   *)
(* Neither changes the prepared set.                                       *)
C35_DeleteBySensor ==
    [][reply'.op = "Delete" =>
         LET p == TargetDB
             log == data[p]
             log2 == data'[p]
             id == reply'.key
         IN /\ preparedTxns'[p] = preparedTxns[p]
            /\ IF id = ""
               THEN ~reply'.resp.Success /\ log2 = log
               ELSE /\ reply'.resp.Success
                    /\ OthersOf(log2, id) = 1..Len(log2)
                    /\ Len(log2) = Cardinality(OthersOf(log, id))
                    /\ \A i \in OthersOf(log, id) :
                          log2[Cardinality({j \in OthersOf(log, id) : j <= i})] = log[i]]_vars

(* a Delete removed the newer of two entries, the one of its sensor, and   *)
(* kept the older one, while a transaction is prepared                     *)
C35_Witness ==
    LET p == TargetDB
    IN /\ reply.op = "Delete" /\ reply.key # "" /\ reply.resp.Success
       /\ maxDataPoints[p] >= 2
       /\ appended[p] = 2 /\ Len(data[p]) = 1
       /\ data[p][1].seq = 1
       /\ preparedTxns[p] # EmptyMap


(* ============ a Prepare executed after its caller gave up ============== *)
TimedTxn == GenerateTransactionID(TimedCall)

(* the Prepare for participant p that the call gave up is still under way *)
LatePending(p) ==
    \E m \in late : m.op = "prepare" /\ m.db = p /\ m.txn = TimedTxn

(* the entry at p was stored by a Prepare that the call had counted as an  *)
(* error (the call is still running)                                       *)
LateEntry(p) ==
    /\ call[TimedCall].prepareErrors[p]
    /\ TimedTxn \in DOMAIN preparedTxns[p]

(* the entry at p was stored after the Abort of the call at p had been     *)
(* answered "not prepared"                                                 *)
OrphanEntry(p) ==
    /\ call[TimedCall].decErr[p] = NotFoundMessage(TimedTxn)
    /\ TimedTxn \in DOMAIN preparedTxns[p]

(* the step removes the entry of the transaction at p *)
EntryLeaves(p) ==
    /\ TimedTxn \in DOMAIN preparedTxns[p]
    /\ TimedTxn \notin DOMAIN preparedTxns'[p]

(* the step is the sweep at p that expires the entry *)
Expires(p) == TimedTxn \in expired'[p] \ expired[p]

(* the step serves the Abort of the call at p, in time or after the call   *)
(* gave it up                                                              *)
AbortServedAt(p) ==
    \/ /\ call[TimedCall].pc = "abort" /\ call[TimedCall].i = p
       /\ call[TimedCall].rpc = "sent" /\ call'[TimedCall].rpc = "replied"
    \/ \E m \in late \ late' : m.op = "abort" /\ m.db = p /\ m.txn = TimedTxn

(* no Commit of the transaction was sent and no log holds a record of it *)
NeverCommitted ==
    /\ \A q \in DBs : <<"commit", q>> \notin call[TimedCall].decSent
    /\ \A q \in DBs : \A i \in 1..Len(data[q]) : data[q][i].txn # TimedTxn

(* C36 as stated: the entry that a Prepare stores after the call counted   *)
(* it as an error leaves the prepared set by expiry only.                  *)
C36_LateEntryOnlyExpires ==
    [][\A p \in DBs : (LateEntry(p) /\ EntryLeaves(p)) => Expires(p)]_vars

(* C36, amended: once a Prepare that the call gave up is under way at p,   *)
(* no Commit of its transaction is ever sent and no log ever holds its     *)
(* record; the entry it stores is removed for good, by the Abort of the    *)
(* call when that is served after it and by expiry otherwise: by expiry    *)
(* alone once the Abort at p was answered "not prepared".                  *)
C36_LateEntryNeverCommitted ==
    /\ \A p \in DBs :
          /\ [](LatePending(p) => []NeverCommitted)
          /\ LatePending(p) ~> [](TimedTxn \notin DOMAIN preparedTxns[p])
          /\ OrphanEntry(p) ~> (TimedTxn \in expired[p])
    /\ [][\A p \in DBs :
            /\ (LateEntry(p) /\ EntryLeaves(p)) => (Expires(p) \/ AbortServedAt(p))
            /\ (OrphanEntry(p) /\ EntryLeaves(p)) => Expires(p)]_vars

(* the Abort at the first participant was answered "not prepared", the     *)
(* Prepare arrived afterwards, and the sweeper has removed its entry; the  *)
(* log is empty                                                            *)
C36_Witness ==
    /\ call[TimedCall].decErr[FirstDB] = NotFoundMessage(TimedTxn)
    /\ call[TimedCall].pc = "done"
    /\ TimedTxn \in expired[FirstDB]
    /\ TimedTxn \notin DOMAIN preparedTxns[FirstDB]
    /\ \A q \in DBs : data[q] = <<>>


(* ================= expiry against the RPC deadlines ==================== *)
(* the decision of the call for participant p was sent and its RPC has     *)
(* ended at the caller                                                     *)
DecisionOver(p) ==
    /\ \E op \in {"commit", "abort"} : <<op, p>> \in call[TimedCall].decSent
    /\ ~(call[TimedCall].pc \in {"commit", "abort"} /\ call[TimedCall].i = p)

(* the step serves the Commit or the Abort of the call at p, in time *)
DecisionServedAt(p) ==
    /\ call[TimedCall].pc \in {"commit", "abort"} /\ call[TimedCall].i = p
    /\ call[TimedCall].rpc = "sent" /\ call'[TimedCall].rpc = "replied"

(* C37: with a deadline of 5 s for each RPC of the sequential prepare and  *)
(* decision loops over two participants and txnTimeout = 30 s, no sweep    *)
(* expires an entry of the transaction before the decision RPC of the live *)
(* call to that participant is over; the decision finds an entry that is   *)
(* at most three deadlines old, and no Commit is answered "not prepared".  *)
C37_DecisionBeforeExpiry ==
    /\ [](\A p \in DBs :
             <<"commit", p>> \in call[TimedCall].decSent
             => /\ call[TimedCall].decErr[p] # NotFoundMessage(TimedTxn)
                /\ (call[TimedCall].pc = "commit" /\ call[TimedCall].i = p
                    /\ call[TimedCall].rpc = "replied")
                   => call[TimedCall].resp.Success)
    /\ [][\A p \in DBs :
            /\ Expires(p) => DecisionOver(p)
            /\ (DecisionServedAt(p) /\ TimedTxn \in DOMAIN preparedTxns[p])
               => now - preparedTxns[p][TimedTxn].PreparedAt <= 3 * RpcDeadline]_vars

(* the first participant has committed and the Commit for the last one,   *)
(* sent a deadline ago, is about to be served: its entry is three          *)
(* deadlines old and the sweeper has run without removing it               *)
C37_Witness ==
    /\ call[TimedCall].pc = "commit" /\ call[TimedCall].i = LastDB
    /\ call[TimedCall].rpc = "sent" /\ call[TimedCall].elapsed
    /\ TimedTxn \in DOMAIN preparedTxns[LastDB]
    /\ now - preparedTxns[LastDB][TimedTxn].PreparedAt = 3 * RpcDeadline
    /\ ticks[LastDB] = 0
    /\ Len(data[FirstDB]) = 1 /\ data[FirstDB][1].txn = TimedTxn

(* ============================== Close ================================= *)
(* C38: TwoPhaseCommitClient.Close calls Close on the connection of every  *)
(* participant, once each and in the order of tpc.clients, also after a    *)
(* Close that failed, and returns an error exactly when a Close failed     *)
(* (the error of the last one that did).                                   *)
C38_CloseClosesAll ==
    reply.op = "Close" =>
        LET r == reply.result
            failed == {i \in 1..Len(reply.clients) : reply.clients[i] \in reply.failing}
        IN /\ r.called = reply.clients
           /\ r.lastError # NilError <=> failed # {}
           /\ failed # {}
              => r.lastError
                    = CloseError(reply.clients[CHOOSE i \in failed : \A j \in failed : j <= i])

(* the Close of the first connection failed and that of the last one did   *)
(* not: all were closed and the error of the first is returned             *)
C38_Witness ==
    /\ reply.op = "Close"
    /\ Len(reply.clients) >= 2
    /\ reply.failing = {reply.clients[1]}
    /\ reply.result.called = reply.clients
    /\ reply.result.lastError = CloseError(reply.clients[1])


(* ======================= the sweeper after Stop ======================== *)
(* the answer and the effect of the step are those of the handler of the   *)
(* 2PC request with transaction id reply'.key                              *)
DecisionWorks(p) ==
    LET req == [TransactionId |-> reply'.key]
        r == IF reply'.op = "Commit" THEN CommitTransaction(Svc(p), req)
             ELSE AbortTransaction(Svc(p), req)
    IN /\ reply'.resp = r.resp
       /\ data'[p] = r.s.data
       /\ preparedTxns'[p] = r.s.preparedTxns

=========================================================================
